---- MODULE Spec2Model ----
(***************************************************************************)
(* Model of the maintenance endpoints of the master's HTTP layer           *)
(* (src/src/master/http.cpp): /master/maintenance/schedule,                *)
(* /master/machine/down and /master/machine/up.                            *)
(*                                                                         *)
(* Every handler runs in two turns of the master's serialized context:     *)
(* the request turn (parse, validate, registrar->apply) and the deferred   *)
(* continuation that runs once the registrar future has a value.  Other    *)
(* requests may take their turns in between.                               *)
(***************************************************************************)
EXTENDS Integers, Sequences, FiniteSets, Bags, TLC

\* ---------------------------------------------------------------- bounds
NumMachines == 2      \* machine identities that requests may name
NumSlaves == 2        \* agent identities that may register
NumUnavail == 2       \* distinct unavailability intervals
MaxWindows == 2       \* windows in a posted schedule
MaxWinLen == 2        \* machines listed in one window
MaxInFlight == 2      \* requests waiting on the registrar at once
RaceSlaves == 1       \* agents, while requests overlap
RaceUnavail == 1      \* unavailability intervals, while requests overlap
NumFrameworks == 2    \* framework identities

Machines == 1..NumMachines
Slaves == 1..NumSlaves
Unavailabilities == 1..NumUnavail
Frameworks == 1..NumFrameworks

Range(s) == {s[i] : i \in DOMAIN s}

\* ---------------------------------------------------------------- state
VARIABLES
  machines,     \* master->machines: MachineID -> [mode in UP, DRAINING, DOWN; unavailability; slaves]
  schedules,    \* master->maintenance.schedules: list of Schedule
  registered,   \* master->slaves.registered
  pending,      \* bag of registrar operations whose future has not resolved yet
  aborted,      \* a CHECK failed: the master process is gone
  last,         \* the turn that produced this state: handler, request, response
  offers,       \* master->offers: the outstanding offers
  nextOfferId,  \* master->nextOfferId: offer ids are never used twice
  available,    \* the allocator's unallocated resources of every agent
  frameworks,   \* master->frameworks: FrameworkID -> [state; http, the pipe it writes to]
  pipes,        \* the pipes made for subscriptions, by number
  master        \* master->elected(), master->recovered, flags.authenticate_frameworks

vars ==
  <<machines, schedules, registered, pending, aborted, last, offers, nextOfferId, available,
    frameworks, pipes, master>>

\* What the operation endpoints never touch.
beyondAdmission == <<frameworks, pipes, master>>

\* What the maintenance endpoints never touch.
beyondMaintenance == <<offers, nextOfferId, available, frameworks, pipes, master>>

\* A default-constructed Machine, as hashmap::operator[] inserts it.
\* Option<Unavailability> is a set with at most one element.
DefaultMachine == [mode |-> "UP", unavailability |-> {}, slaves |-> {}]

\* master->machines[id]: the entry, default-constructed when missing.
At(machs, id) == IF id \in DOMAIN machs THEN machs[id] ELSE DefaultMachine

\* master->machines[id] = entry
Put(machs, id, entry) ==
  [x \in DOMAIN machs \cup {id} |-> IF x = id THEN entry ELSE machs[x]]

EmptySchedule == [windows |-> <<>>]
NoReq == [op |-> "none", schedule |-> EmptySchedule, ids |-> {}]

\* What a turn leaves behind for the observer: the handler, the request, the
\* response, the value of the registrar future a continuation was called
\* with, and the agents a ShutdownMessage was sent to.
Turn(op, req, code, body) ==
  [op |-> op, req |-> req, code |-> code, body |-> body, registrar |-> "", sent |-> {}]

Resumed(op, req, result, code, sent) ==
  [op |-> op, req |-> req, code |-> code, body |-> {},
   registrar |-> IF result THEN "true" ELSE "false", sent |-> sent]

\* ---------------------------------------------------------------- inputs
\* Sequences over S without repetition, of length lo..hi.
SeqsNoDup(S, lo, hi) ==
  UNION {{s \in [1..n -> S] : \A i, j \in 1..n : i # j => s[i] # s[j]} : n \in lo..hi}

\* The orders in which a loop may walk a container with these elements.
Orders(keys) == SeqsNoDup(keys, Cardinality(keys), Cardinality(keys))

Windows(unavailabilities) ==
  [machine_ids : SeqsNoDup(Machines, 1, MaxWinLen), unavailability : unavailabilities]

\* Well-formed schedules: every machine is listed at most once.
WindowLists(unavailabilities) ==
  UNION {{ws \in [1..n -> Windows(unavailabilities)] :
            \A i, j \in 1..n : i # j =>
               Range(ws[i].machine_ids) \cap Range(ws[j].machine_ids) = {}} :
         n \in 0..MaxWindows}

\* A JSON object is a set of <<key, value>> members.
JsonSchedules(unavailabilities) ==
  {{}} \cup {{<<"windows", ws>>} : ws \in WindowLists(unavailabilities)}

\* A body that JSON::parse or ::protobuf::parse rejects.
Malformed == {<<"malformed", <<>>>>}

\* JSON arrays of machine ids; the empty one stands for every malformed list.
MachineLists == SUBSET Machines

\* maintenance::validation::machines(ids)
ValidMachines(ids) == ids # {}

\* ::protobuf::parse<mesos::maintenance::Schedule>: a missing repeated field
\* is an empty one.
ParseSchedule(json) ==
  IF \E kv \in json : kv[1] = "windows"
    THEN [windows |-> (CHOOSE kv \in json : kv[1] = "windows")[2]]
    ELSE EmptySchedule

\* JSON::protobuf: only the fields that are set are written, and a repeated
\* field without elements is not set.
JsonProtobuf(schedule) ==
  IF Len(schedule.windows) > 0 THEN {<<"windows", schedule.windows>>} ELSE {}

MachinesOf(schedule) ==
  UNION {Range(schedule.windows[i].machine_ids) : i \in DOMAIN schedule.windows}

\* A rejected request is remembered by the machines it names.
Named(req) ==
  [op |-> req.op, schedule |-> EmptySchedule, ids |-> req.ids \cup MachinesOf(req.schedule)]

\* ---------------------------------------------------------------- helpers
\* maintenance::validation::schedule(schedule, master->machines)
ValidSchedule(schedule, machs) ==
  \A id \in MachinesOf(schedule) :
     id \in DOMAIN machs => machs[id].mode # "DOWN"

\* Master::updateUnavailability(id, unavailability) on the entry of id.
updateUnavailability(entry, unavailability) ==
  [entry EXCEPT !.unavailability = unavailability]

\* hashmap<MachineID, Unavailability> updated: a later window overwrites.
RECURSIVE UpdatedMap(_)
UpdatedMap(windows) ==
  IF windows = <<>> THEN <<>>
  ELSE LET prev == UpdatedMap(SubSeq(windows, 1, Len(windows) - 1))
           w == windows[Len(windows)]
           ids == Range(w.machine_ids)
       IN [id \in DOMAIN prev \cup ids |->
             IF id \in ids THEN w.unavailability ELSE prev[id]]

\* DiffKnown without the branch that resets the machines left out.
\* The stored schedules with one more.
Replaced_Appended(scheds, schedule) == Append(scheds, schedule)

\* schedules.clear(); schedules.push_back(schedule)
Replaced(scheds, schedule) == <<schedule>>

\* DiffKnown forgetting the machines that are not in the new schedule.
DiffKnown_DropRemoved(machs, updated) ==
  [id \in DOMAIN machs \cap DOMAIN updated |->
     updateUnavailability(machs[id], {updated[id]})]

DiffKnown_KeepRemoved(machs, updated) ==
  [id \in DOMAIN machs |->
     IF id \in DOMAIN updated
       THEN updateUnavailability(machs[id], {updated[id]})
       ELSE machs[id]]

\* First loop of the continuation: every machine the master knows.
DiffKnown(machs, updated) ==
  [id \in DOMAIN machs |->
     IF id \in DOMAIN updated
       THEN updateUnavailability(machs[id], {updated[id]})
       ELSE updateUnavailability([machs[id] EXCEPT !.mode = "UP"], {})]

\* Body of the second loop: a fresh MachineInfo in DRAINING mode is copied
\* over the entry's info, then the window's unavailability is set.
SaveMachine(machs, id, unavailability) ==
  Put(machs, id,
      updateUnavailability(
        [At(machs, id) EXCEPT !.mode = "DRAINING", !.unavailability = {}],
        {unavailability}))

RECURSIVE SaveIds(_, _, _)
SaveIds(machs, ids, unavailability) ==
  IF ids = <<>> THEN machs
  ELSE SaveIds(SaveMachine(machs, Head(ids), unavailability), Tail(ids), unavailability)

RECURSIVE SaveWindows(_, _)
SaveWindows(machs, windows) ==
  IF windows = <<>> THEN machs
  ELSE SaveWindows(SaveIds(machs, Head(windows).machine_ids, Head(windows).unavailability),
                   Tail(windows))

\* The in-memory update of a schedule POST.
ApplySchedule(machs, schedule) ==
  SaveWindows(DiffKnown(machs, UpdatedMap(schedule.windows)), schedule.windows)

\* ---------------------------------------------------------------- resources
MaxCpus == 3          \* cpus of an agent
MaxDisk == 1          \* disk of an agent

\* The kinds of Resource that add up with each other: cpus and disk,
\* unreserved or reserved for a role, and reserved disk with a DiskInfo (a
\* persistent volume).
Kinds == {"cpus", "reserved_cpus", "disk", "reserved_disk", "volume"}

\* Resources: the scalar amount of every kind.
NoResources == [cpus |-> 0, reserved_cpus |-> 0, disk |-> 0, reserved_disk |-> 0, volume |-> 0]

Only(kind, amount) == [NoResources EXCEPT ![kind] = amount]

\* Resources::operator+=
Plus(a, b) ==
  [cpus |-> a.cpus + b.cpus,
   reserved_cpus |-> a.reserved_cpus + b.reserved_cpus,
   disk |-> a.disk + b.disk,
   reserved_disk |-> a.reserved_disk + b.reserved_disk,
   volume |-> a.volume + b.volume]

\* Scalar subtraction inside Resources: an amount that would fall below zero
\* leaves nothing.
Less(x, y) == IF x > y THEN x - y ELSE 0

\* Resources::operator-=
Minus(a, b) ==
  [cpus |-> Less(a.cpus, b.cpus),
   reserved_cpus |-> Less(a.reserved_cpus, b.reserved_cpus),
   disk |-> Less(a.disk, b.disk),
   reserved_disk |-> Less(a.reserved_disk, b.reserved_disk),
   volume |-> Less(a.volume, b.volume)]

\* Resources::contains
Contains(a, b) == \A k \in Kinds : a[k] >= b[k]

\* Resources::flatten(): role and ReservationInfo are stripped.  (A DiskInfo
\* stays: a volume is left as it is.)
flatten(r) ==
  [cpus |-> r.cpus + r.reserved_cpus,
   reserved_cpus |-> 0,
   disk |-> r.disk + r.reserved_disk,
   reserved_disk |-> 0,
   volume |-> r.volume]

\* removeDiskInfos: clear_disk() on every resource.
removeDiskInfos(r) ==
  [cpus |-> r.cpus,
   reserved_cpus |-> r.reserved_cpus,
   disk |-> r.disk,
   reserved_disk |-> r.reserved_disk + r.volume,
   volume |-> 0]

\* The resources an agent registers with: unreserved, without DiskInfo.
Capacity == [NoResources EXCEPT !.cpus = MaxCpus, !.disk = MaxDisk]

\* What Resources::apply(operation) takes out of the resources it is
\* applied to, and what it puts in.
Consumed(operation) ==
  CASE operation.type = "RESERVE" -> flatten(operation.resources)
    [] operation.type = "UNRESERVE" -> operation.resources
    [] operation.type = "CREATE" -> removeDiskInfos(operation.resources)
    [] operation.type = "DESTROY" -> operation.resources

Produced(operation) ==
  CASE operation.type = "RESERVE" -> operation.resources
    [] operation.type = "UNRESERVE" -> flatten(operation.resources)
    [] operation.type = "CREATE" -> operation.resources
    [] operation.type = "DESTROY" -> removeDiskInfos(operation.resources)

\* Resources::apply(operation).isSome()
Applies(resources, operation) == Contains(resources, Consumed(operation))

\* Resources::apply(operation).get()
Applied(resources, operation) ==
  Plus(Minus(resources, Consumed(operation)), Produced(operation))

\* validation::operation::validate of the four operations: the resources
\* are reserved and without DiskInfo for RESERVE and UNRESERVE, persistent
\* volumes for CREATE and DESTROY.
ValidOperation(operation) ==
  \A k \in Kinds : operation.resources[k] > 0 =>
     IF operation.type \in {"RESERVE", "UNRESERVE"}
       THEN k \in {"reserved_cpus", "reserved_disk"}
       ELSE k = "volume"

\* ---------------------------------------------------------------- actions
\* The state of a master that was started with this flag.
Constructed(authenticate_frameworks) ==
  /\ machines = <<>>
  /\ schedules = <<>>
  /\ registered = {}
  /\ pending = EmptyBag
  /\ aborted = FALSE
  /\ last = Turn("init", NoReq, "", {})
  /\ offers = {}
  /\ nextOfferId = 1
  /\ available = [slaveId \in Slaves |-> Capacity]
  /\ frameworks = [frameworkId \in Frameworks |-> [state |-> "unknown", http |-> 0]]
  /\ pipes = <<>>
  /\ master = [elected |-> FALSE, recovered |-> FALSE,
               authenticate_frameworks |-> authenticate_frameworks]

Init == Constructed(FALSE)

\* registrar->apply(operation): the operation waits for its future.
Submit(req) == pending (+) SetToBag({req})

\* A continuation that leaves its future where it was.
Resolve_Kept(req) == pending

\* The future of an operation resolved and its continuation took its turn.
Resolve(req) == pending (-) SetToBag({req})

InFlight == BagCardinality(pending)

\* CurrentSchedule answering with a default-constructed Schedule.
CurrentSchedule_AlwaysEmpty(scheds) == EmptySchedule

\* The schedule a GET answers with.
CurrentSchedule(scheds) == IF scheds = <<>> THEN EmptySchedule ELSE Head(scheds)

\* Master::Http::maintenanceSchedule, the request turn.
maintenanceSchedule(method, body) ==
  /\ ~aborted
  /\ UNCHANGED beyondMaintenance
  /\ LET req == [op |-> "UpdateSchedule", schedule |-> ParseSchedule(body), ids |-> {}]
     IN
     IF method # "GET" /\ method # "POST" THEN
       /\ last' = Turn("maintenanceSchedule", NoReq, "BadRequest", {})
       /\ UNCHANGED <<machines, schedules, registered, pending, aborted>>
     ELSE IF method = "GET" THEN
       /\ last' = Turn("maintenanceSchedule.GET", NoReq, "OK",
                       JsonProtobuf(CurrentSchedule(schedules)))
       /\ UNCHANGED <<machines, schedules, registered, pending, aborted>>
     ELSE IF body = Malformed THEN
       /\ last' = Turn("maintenanceSchedule", NoReq, "BadRequest", {})
       /\ UNCHANGED <<machines, schedules, registered, pending, aborted>>
     ELSE IF ~ValidSchedule(req.schedule, machines) THEN
       /\ last' = Turn("maintenanceSchedule", Named(req), "BadRequest", {})
       /\ UNCHANGED <<machines, schedules, registered, pending, aborted>>
     ELSE
       /\ InFlight < MaxInFlight
       /\ pending' = Submit(req)
       /\ last' = Turn("maintenanceSchedule", req, "Pending", {})
       /\ UNCHANGED <<machines, schedules, registered, aborted>>

\* maintenanceScheduleThen without CHECK(result).
maintenanceScheduleThen_Unchecked(req, result) ==
  /\ ~aborted
  /\ UNCHANGED beyondMaintenance
  /\ BagIn(req, pending)
  /\ req.op = "UpdateSchedule"
  /\ machines' = ApplySchedule(machines, req.schedule)
  /\ schedules' = Replaced(schedules, req.schedule)
  /\ pending' = Resolve(req)
  /\ last' = Resumed("UpdateSchedule.then", req, result, "OK", {})
  /\ UNCHANGED <<registered, aborted>>

\* The continuation of maintenanceSchedule, deferred to the master.
maintenanceScheduleThen(req, result) ==
  /\ ~aborted
  /\ UNCHANGED beyondMaintenance
  /\ BagIn(req, pending)
  /\ req.op = "UpdateSchedule"
  /\ IF ~result THEN
       \* CHECK(result)
       /\ aborted' = TRUE
       /\ last' = Resumed("UpdateSchedule.then", req, result, "ABORT", {})
       /\ UNCHANGED <<machines, schedules, registered, pending>>
     ELSE
       /\ machines' = ApplySchedule(machines, req.schedule)
       /\ schedules' = Replaced(schedules, req.schedule)
       /\ pending' = Resolve(req)
       /\ last' = Resumed("UpdateSchedule.then", req, result, "OK", {})
       /\ UNCHANGED <<registered, aborted>>

\* Master::removeSlave: the agent leaves its machine (and slaves.registered).
removeSlave(machs, slaveId) ==
  [id \in DOMAIN machs |-> [machs[id] EXCEPT !.slaves = @ \ {slaveId}]]

RECURSIVE removeSlaves(_, _)
removeSlaves(machs, slaveIds) ==
  IF slaveIds = {} THEN machs
  ELSE LET s == CHOOSE x \in slaveIds : TRUE
       IN removeSlaves(removeSlave(machs, s), slaveIds \ {s})

\* SlavesOn stopping after the first machine of the request.
SlavesOn_FirstMachine(machs, ids) ==
  IF ids \cap DOMAIN machs = {} THEN {}
  ELSE machs[CHOOSE id \in ids \cap DOMAIN machs : TRUE].slaves

\* The agents on the machines of a request, when the continuation runs.
SlavesOn(machs, ids) == UNION {machs[id].slaves : id \in ids \cap DOMAIN machs}

\* The loop marking one machine and leaving the others to a later turn.
MarkDown_OneByOne(machs, ids) ==
  [id \in DOMAIN machs \cup ids |->
     IF id \in ids /\ \A other \in ids : id <= other
       THEN [At(machs, id) EXCEPT !.mode = "DOWN"]
       ELSE At(machs, id)]

\* Last loop of the machineDown continuation.
MarkDown(machs, ids) ==
  [id \in DOMAIN machs \cup ids |->
     IF id \in ids THEN [At(machs, id) EXCEPT !.mode = "DOWN"] ELSE machs[id]]

\* MarkUp without clear_unavailability().
MarkUp_KeepUnavailability(machs, ids) ==
  [id \in DOMAIN machs \cup ids |->
     IF id \in ids THEN [At(machs, id) EXCEPT !.mode = "UP"] ELSE machs[id]]

\* First loop of the machineUp continuation.
MarkUp(machs, ids) ==
  [id \in DOMAIN machs \cup ids |->
     IF id \in ids THEN [At(machs, id) EXCEPT !.mode = "UP", !.unavailability = {}]
     ELSE machs[id]]

MapSeq(F(_), s) == [i \in DOMAIN s |-> F(s[i])]

\* Inner loops of machineUp: the machines of `updated` leave the window ...
PruneWindow(window, updated) ==
  [window EXCEPT !.machine_ids = SelectSeq(@, LAMBDA id : id \notin updated)]

\* PruneSchedule without the deletion of empty windows.
PruneSchedule_KeepEmptyWindows(schedule, updated) ==
  [windows |-> MapSeq(LAMBDA w : PruneWindow(w, updated), schedule.windows)]

\* ... an empty window leaves the schedule ...
PruneSchedule(schedule, updated) ==
  [windows |-> SelectSeq(MapSeq(LAMBDA w : PruneWindow(w, updated), schedule.windows),
                         LAMBDA w : Len(w.machine_ids) # 0)]

\* ... and an empty schedule leaves the list.
PruneSchedules(scheds, updated) ==
  SelectSeq(MapSeq(LAMBDA sch : PruneSchedule(sch, updated), scheds),
            LAMBDA sch : Len(sch.windows) # 0)

\* AllInMode satisfied by a single machine in the mode.
AnyInMode(machs, ids, mode) ==
  \E id \in ids : id \in DOMAIN machs /\ machs[id].mode = mode

\* The precondition loop of machineDown and machineUp.
AllInMode(machs, ids, mode) ==
  \A id \in ids : id \in DOMAIN machs /\ machs[id].mode = mode

\* machineDown marking the machines before the registrar has answered.
machineDown_Eager(method, body) ==
  /\ ~aborted
  /\ UNCHANGED beyondMaintenance
  /\ LET req == [op |-> "StartMaintenance", schedule |-> EmptySchedule, ids |-> body]
     IN
     IF method # "POST" \/ ~ValidMachines(body) THEN
       /\ last' = Turn("machineDown", NoReq, "BadRequest", {})
       /\ UNCHANGED <<machines, schedules, registered, pending, aborted>>
     ELSE IF ~AllInMode(machines, req.ids, "DRAINING") THEN
       /\ last' = Turn("machineDown", req, "BadRequest", {})
       /\ UNCHANGED <<machines, schedules, registered, pending, aborted>>
     ELSE
       /\ InFlight < MaxInFlight
       /\ pending' = Submit(req)
       /\ machines' = MarkDown(machines, req.ids)
       /\ last' = Turn("machineDown", req, "Pending", {})
       /\ UNCHANGED <<schedules, registered, aborted>>

\* Master::Http::machineDown, the request turn.
machineDown(method, body) ==
  /\ ~aborted
  /\ UNCHANGED beyondMaintenance
  /\ LET req == [op |-> "StartMaintenance", schedule |-> EmptySchedule, ids |-> body]
     IN
     IF method # "POST" \/ ~ValidMachines(body) THEN
       /\ last' = Turn("machineDown", NoReq, "BadRequest", {})
       /\ UNCHANGED <<machines, schedules, registered, pending, aborted>>
     ELSE IF ~AllInMode(machines, req.ids, "DRAINING") THEN
       /\ last' = Turn("machineDown", req, "BadRequest", {})
       /\ UNCHANGED <<machines, schedules, registered, pending, aborted>>
     ELSE
       /\ InFlight < MaxInFlight
       /\ pending' = Submit(req)
       /\ last' = Turn("machineDown", req, "Pending", {})
       /\ UNCHANGED <<machines, schedules, registered, aborted>>

\* The continuation of machineDown.
\* The orders in which the agents are met when the machines are walked in
\* the order `ids`: machine after machine, the agents of one machine in any
\* order.
RECURSIVE SlaveOrders(_, _)
SlaveOrders(machs, ids) ==
  IF ids = <<>> THEN {<<>>}
  ELSE LET here == IF Head(ids) \in DOMAIN machs THEN machs[Head(ids)].slaves ELSE {}
       IN {first \o rest : first \in Orders(here), rest \in SlaveOrders(machs, Tail(ids))}

\* The inner loop: each agent is sent the ShutdownMessage, then removed.
RECURSIVE Shutdowns(_)
Shutdowns(slaveIds) ==
  IF slaveIds = <<>> THEN <<>>
  ELSE <<[call |-> "send ShutdownMessage", id |-> Head(slaveIds)],
         [call |-> "removeSlave", id |-> Head(slaveIds)]>>
         \o Shutdowns(Tail(slaveIds))

\* Continuation marking the machines DOWN before it shuts their agents down.
Downing_MarkFirst(slaveIds, ids) ==
  [i \in DOMAIN ids |-> [call |-> "set_mode DOWN", id |-> ids[i]]] \o Shutdowns(slaveIds)

\* The steps of the continuation of machineDown: every agent is told to shut
\* down and removed, then every machine is marked DOWN.
Downing(slaveIds, ids) ==
  Shutdowns(slaveIds) \o [i \in DOMAIN ids |-> [call |-> "set_mode DOWN", id |-> ids[i]]]

\* What the allocator gets back when these offers are removed.
RECURSIVE Returned(_, _)
Returned(back, removed) ==
  IF removed = {} THEN back
  ELSE LET offer == CHOOSE o \in removed : TRUE
       IN Returned([back EXCEPT ![offer.slave_id] = Plus(@, offer.resources)],
                   removed \ {offer})

\* removeSlave leaving the offers of the agents where they are.
Lost_None(offerSet, slaveIds) == {}

\* Master::removeSlave: the offers that go with the agents that are removed.
Lost(offerSet, slaveIds) == {offer \in offerSet : offer.slave_id \in slaveIds}

\* The turn of the continuation of machineDown, with its steps and the offers
\* that went with the agents.
Downed(req, result, sent, calls, lost) ==
  [op |-> "StartMaintenance.then", req |-> req, code |-> "OK", body |-> {},
   registrar |-> IF result THEN "true" ELSE "false", sent |-> sent, calls |-> calls,
   lost |-> lost]

machineDownThen(req, result) ==
  /\ ~aborted
  /\ UNCHANGED <<nextOfferId, frameworks, pipes, master>>
  /\ BagIn(req, pending)
  /\ req.op = "StartMaintenance"
  /\ LET slaveIds == SlavesOn(machines, req.ids)
     IN
     IF ~result \/ ~(slaveIds \subseteq registered) THEN
       \* CHECK(result), CHECK_NOTNULL(slave)
       /\ aborted' = TRUE
       /\ last' = Resumed("StartMaintenance.then", req, result, "ABORT", {})
       /\ UNCHANGED <<machines, schedules, registered, pending, offers, available>>
     ELSE
       /\ registered' = registered \ slaveIds
       /\ machines' = MarkDown(removeSlaves(machines, slaveIds), req.ids)
       /\ offers' = offers \ Lost(offers, slaveIds)
       /\ available' = Returned(available, Lost(offers, slaveIds))
       /\ pending' = Resolve(req)
       /\ \E ids \in Orders(req.ids) :
             \E slaveOrder \in SlaveOrders(machines, ids) :
                last' = Downed(req, result, slaveIds, Downing(slaveOrder, ids),
                               Lost(offers, slaveIds))
       /\ UNCHANGED <<schedules, aborted>>

\* Master::Http::machineUp, the request turn.
machineUp(method, body) ==
  /\ ~aborted
  /\ UNCHANGED beyondMaintenance
  /\ LET req == [op |-> "StopMaintenance", schedule |-> EmptySchedule, ids |-> body]
     IN
     IF method # "POST" \/ ~ValidMachines(body) THEN
       /\ last' = Turn("machineUp", NoReq, "BadRequest", {})
       /\ UNCHANGED <<machines, schedules, registered, pending, aborted>>
     ELSE IF ~AllInMode(machines, req.ids, "DOWN") THEN
       /\ last' = Turn("machineUp", req, "BadRequest", {})
       /\ UNCHANGED <<machines, schedules, registered, pending, aborted>>
     ELSE
       /\ InFlight < MaxInFlight
       /\ pending' = Submit(req)
       /\ last' = Turn("machineUp", req, "Pending", {})
       /\ UNCHANGED <<machines, schedules, registered, aborted>>

\* The continuation of machineUp.
machineUpThen(req, result) ==
  /\ ~aborted
  /\ UNCHANGED beyondMaintenance
  /\ BagIn(req, pending)
  /\ req.op = "StopMaintenance"
  /\ IF ~result THEN
       \* CHECK(result)
       /\ aborted' = TRUE
       /\ last' = Resumed("StopMaintenance.then", req, result, "ABORT", {})
       /\ UNCHANGED <<machines, schedules, registered, pending>>
     ELSE
       /\ machines' = MarkUp(machines, req.ids)
       /\ schedules' = PruneSchedules(schedules, req.ids)
       /\ pending' = Resolve(req)
       /\ last' = Resumed("StopMaintenance.then", req, result, "OK", {})
       /\ UNCHANGED <<registered, aborted>>

\* An agent registers with the master from one of the machines.
registerSlave(slaveId, machineId) ==
  /\ ~aborted
  /\ UNCHANGED beyondMaintenance
  /\ slaveId \notin registered
  /\ registered' = registered \cup {slaveId}
  /\ machines' = Put(machines, machineId,
                     [At(machines, machineId) EXCEPT !.slaves = @ \cup {slaveId}])
  /\ last' = Turn("registerSlave", NoReq, "", {})
  /\ UNCHANGED <<schedules, pending, aborted>>

Requests(unavailabilities) ==
  \/ \E body \in JsonSchedules(unavailabilities) \cup {Malformed} :
       maintenanceSchedule("POST", body)
  \/ \E method \in {"GET", "PUT"} : maintenanceSchedule(method, {})
  \/ \E body \in MachineLists : machineDown("POST", body)
  \/ machineDown("GET", {})
  \/ \E body \in MachineLists : machineUp("POST", body)
  \/ machineUp("GET", {})

Continuations ==
  \/ \E req \in BagToSet(pending), result \in BOOLEAN : maintenanceScheduleThen(req, result)
  \/ \E req \in BagToSet(pending), result \in BOOLEAN : machineDownThen(req, result)
  \/ \E req \in BagToSet(pending), result \in BOOLEAN : machineUpThen(req, result)

Environment(slaveIds) ==
  \E slaveId \in slaveIds, machineId \in Machines : registerSlave(slaveId, machineId)

\* Requests overlap: up to MaxInFlight of them wait on the registrar.
Next ==
  \/ Requests(1..RaceUnavail)
  \/ Continuations
  \/ Environment(1..RaceSlaves)

Spec == Init /\ [][Next]_vars

\* One request at a time: the next one arrives when the previous one has been
\* answered.
SerialNext ==
  \/ InFlight = 0 /\ Requests(Unavailabilities)
  \/ Continuations
  \/ Environment(Slaves)

SerialSpec == Init /\ [][SerialNext]_vars

\* ------------------------------------------------------ maintenance status
\* mesos::master::InverseOfferStatus of a framework.
InverseOfferStatuses == [framework_id : Frameworks, status : {"ACCEPT"}]

\* hashmap<FrameworkID, InverseOfferStatus>: what the frameworks answered for
\* one agent.
StatusMaps ==
  UNION {{f \in [fs -> InverseOfferStatuses] : \A id \in fs : f[id].framework_id = id} :
         fs \in SUBSET Frameworks}

\* hashmap<SlaveID, hashmap<FrameworkID, InverseOfferStatus>>: the value of
\* allocator->getInverseOfferStatuses(), which may name any agents.
AllocatorResults == UNION {[ss -> StatusMaps] : ss \in SUBSET Slaves}

GetStatus == [op |-> "GetInverseOfferStatuses", schedule |-> EmptySchedule, ids |-> {}]

\* The turn of a continuation that was called with the allocator's result.
Answered(op, req, code, body, result) ==
  [op |-> op, req |-> req, code |-> code, body |-> body, registrar |-> "", sent |-> {},
   result |-> result]

\* foreachvalue over result[slave]: the statuses, however often each occurs.
ValuesOf(map) ==
  LET vals == Range(map)
  IN [v \in vals |-> Cardinality({k \in DOMAIN map : map[k] = v})]

\* The statuses added for the agents of one draining machine.
RECURSIVE StatusesOf(_, _)
StatusesOf(slaves, result) ==
  IF slaves = {} THEN EmptyBag
  ELSE LET slave == CHOOSE x \in slaves : TRUE
           rest == StatusesOf(slaves \ {slave}, result)
       IN IF slave \in DOMAIN result THEN rest (+) ValuesOf(result[slave]) ELSE rest

\* ClusterStatus listing as down every machine that is not draining.
ClusterStatus_UpIsDown(machs, result, order) ==
  [draining_machines |->
     MapSeq(LAMBDA id : [id |-> id, statuses |-> StatusesOf(machs[id].slaves, result)],
            SelectSeq(order, LAMBDA id : machs[id].mode = "DRAINING")),
   down_machines |-> SelectSeq(order, LAMBDA id : machs[id].mode # "DRAINING")]

\* mesos::maintenance::ClusterStatus, filled while walking master->machines
\* in the order of the hashmap.
ClusterStatus(machs, result, order) ==
  [draining_machines |->
     MapSeq(LAMBDA id : [id |-> id, statuses |-> StatusesOf(machs[id].slaves, result)],
            SelectSeq(order, LAMBDA id : machs[id].mode = "DRAINING")),
   down_machines |-> SelectSeq(order, LAMBDA id : machs[id].mode = "DOWN")]

\* JSON::protobuf(status): a repeated field without elements is left out.
JsonStatus(status) ==
  {<<"draining_machines", status.draining_machines>> : x \in
      IF Len(status.draining_machines) > 0 THEN {1} ELSE {}}
  \cup {<<"down_machines", status.down_machines>> : x \in
      IF Len(status.down_machines) > 0 THEN {1} ELSE {}}

\* Master::Http::maintenanceStatus, the request turn.
maintenanceStatus(method) ==
  /\ ~aborted
  /\ UNCHANGED beyondMaintenance
  /\ IF method # "GET" THEN
       /\ last' = Turn("maintenanceStatus", NoReq, "BadRequest", {})
       /\ UNCHANGED <<machines, schedules, registered, pending, aborted>>
     ELSE
       /\ InFlight < MaxInFlight
       /\ pending' = Submit(GetStatus)
       /\ last' = Turn("maintenanceStatus", GetStatus, "Pending", {})
       /\ UNCHANGED <<machines, schedules, registered, aborted>>

\* The continuation of maintenanceStatus, called with the allocator's answer.
maintenanceStatusThen(result, order) ==
  /\ ~aborted
  /\ UNCHANGED beyondMaintenance
  /\ BagIn(GetStatus, pending)
  /\ pending' = Resolve(GetStatus)
  /\ last' = Answered("GetInverseOfferStatuses.then", GetStatus, "OK",
                      JsonStatus(ClusterStatus(machines, result, order)), result)
  /\ UNCHANGED <<machines, schedules, registered, aborted>>

StatusRequests == \E method \in {"GET", "POST"} : maintenanceStatus(method)

StatusContinuations ==
  \E result \in AllocatorResults, order \in Orders(DOMAIN machines) :
     maintenanceStatusThen(result, order)

\* The status query next to the other maintenance requests, which arrive
\* while no other request waits; agents register at any time.
StatusNext ==
  \/ InFlight = 0 /\ Requests(1..RaceUnavail)
  \/ Continuations
  \/ StatusRequests
  \/ StatusContinuations
  \/ Environment(Slaves)

StatusSpec == Init /\ [][StatusNext]_vars
\* ------------------------------------------------ resource operation admission
MaxOffers == 3        \* offers the allocator makes in a run
MaxRequest == 2       \* amount of one kind in a request

\* The loop going through the offers of every agent.
OffersOf_Everyone(slaveId) == offers

\* slave->offers
OffersOf(slaveId) == {offer \in offers : offer.slave_id = slaveId}

\* The calls the rescission of one offer makes, in their order.
Rescission_RemoveFirst(offer) ==
  <<[call |-> "removeOffer", offer |-> offer, filters |-> ""],
    [call |-> "recoverResources", offer |-> offer, filters |-> "Filters()"]>>

Rescission(offer) ==
  <<[call |-> "recoverResources", offer |-> offer, filters |-> "Filters()"],
    [call |-> "removeOffer", offer |-> offer, filters |-> ""]>>

\* Rescind going through every offer: none is skipped and the loop does not
\* end early.
RECURSIVE Rescind_EveryOffer(_, _, _, _, _)
Rescind_EveryOffer(order, required, recovered, operation, calls) ==
  IF order = <<>>
    THEN [required |-> required, recovered |-> recovered, calls |-> calls]
  ELSE Rescind_EveryOffer(Tail(order), Minus(required, Head(order).resources),
                          Plus(recovered, Head(order).resources), operation,
                          calls \o Rescission(Head(order)))

\* Rescind leaving the loop at the first offer that does not contribute.
RECURSIVE Rescind_BreakOnSkip(_, _, _, _, _)
Rescind_BreakOnSkip(order, required, recovered, operation, calls) ==
  IF order = <<>> \/ required = Minus(required, Head(order).resources)
    THEN [required |-> required, recovered |-> recovered, calls |-> calls]
  ELSE LET offer == Head(order)
           rec == Plus(recovered, offer.resources)
           req == Minus(required, offer.resources)
           done == calls \o Rescission(offer)
       IN IF Applies(rec, operation)
            THEN [required |-> req, recovered |-> rec, calls |-> done]
            ELSE Rescind_BreakOnSkip(Tail(order), req, rec, operation, done)

\* The loop of _operation over the offers in the order `order`: what is still
\* required, what was recovered, and the calls made.
RECURSIVE Rescind(_, _, _, _, _)
Rescind(order, required, recovered, operation, calls) ==
  IF order = <<>>
    THEN [required |-> required, recovered |-> recovered, calls |-> calls]
  ELSE LET offer == Head(order)
       IN IF required = Minus(required, offer.resources)
            THEN Rescind(Tail(order), required, recovered, operation, calls)
          ELSE LET rec == Plus(recovered, offer.resources)
                   req == Minus(required, offer.resources)
                   done == calls \o Rescission(offer)
               IN IF Applies(rec, operation)
                    THEN [required |-> req, recovered |-> rec, calls |-> done]
                    ELSE Rescind(Tail(order), req, rec, operation, done)

\* The offers a sequence of calls removed.
Removed(calls) == {calls[i].offer : i \in {j \in DOMAIN calls : calls[j].call = "removeOffer"}}

\* master->apply(slave, operation): the future the allocator will resolve.
Apply(slaveId, operation) == [op |-> "Apply", slaveId |-> slaveId, operation |-> operation]

\* The turn of an admission request: the response or the pending future, and
\* the calls to the allocator and the master in their order.
Admission(op, req, code, body, calls) ==
  [op |-> op, req |-> req, code |-> code, body |-> body, registrar |-> "", sent |-> {},
   calls |-> calls]

\* What is kept of a rejected request: the agent it was about, once the
\* handler has read it.
Asking(slaveIds) == [slaveIds |-> slaveIds]

\* Master::Http::authenticate: None, Some or Error.
authenticate(request, credentials) ==
  IF ~credentials THEN "None"
  ELSE IF request.authorization = "valid" THEN "Some"
  ELSE "Error"

\* _operation answering Conflict itself, without master->apply, when the
\* rescinded offers do not cover the operation.
_operation_OnlyWhenSufficient(op, slaveId, required, operation, order) ==
  LET loop == Rescind(order, required, NoResources, operation, <<>>)
      sufficient == Applies(loop.recovered, operation)
  IN /\ slaveId \in registered
     /\ InFlight < MaxInFlight
     /\ offers' = offers \ Removed(loop.calls)
     /\ available' = [available EXCEPT ![slaveId] = Plus(@, loop.recovered)]
     /\ pending' = IF sufficient THEN Submit(Apply(slaveId, operation)) ELSE pending
     /\ last' = Admission(op, [slaveId |-> slaveId, required |-> required,
                               operation |-> operation],
                          IF sufficient THEN "Pending" ELSE "Conflict", "",
                          IF sufficient
                            THEN loop.calls \o <<[call |-> "apply",
                                                  offer |-> Apply(slaveId, operation),
                                                  filters |-> ""]>>
                            ELSE loop.calls)

\* Master::Http::_operation, called in the turn of its endpoint.
_operation(op, slaveId, required, operation, order) ==
  IF slaveId \notin registered THEN
    /\ last' = Admission(op, Asking({slaveId}), "BadRequest",
                         "No slave found with specified ID", <<>>)
    /\ UNCHANGED <<offers, available, pending>>
  ELSE
    LET loop == Rescind(order, required, NoResources, operation, <<>>)
    IN /\ InFlight < MaxInFlight
       /\ offers' = offers \ Removed(loop.calls)
       /\ available' = [available EXCEPT ![slaveId] = Plus(@, loop.recovered)]
       /\ pending' = Submit(Apply(slaveId, operation))
       /\ last' = Admission(op, [slaveId |-> slaveId, required |-> required,
                                 operation |-> operation],
                            "Pending", "",
                            loop.calls \o <<[call |-> "apply", offer |-> Apply(slaveId, operation),
                                             filters |-> ""]>>)

\* The answer of a check that failed, and the agent once it was looked up.
Rejected(code, message, slaveIds) ==
  [code |-> code, message |-> message, slaveIds |-> slaveIds]

\* The resources that have to be free for the operation of each endpoint:
\* reserve passes resources.flatten(), createVolumes removeDiskInfos(volumes),
\* unreserve and destroyVolumes what they were given.
Required(op, resources) ==
  CASE op = "reserve" -> flatten(resources)
    [] op = "createVolumes" -> removeDiskInfos(resources)
    [] OTHER -> resources

\* Rejection looking the agent up after the parameter with the resources.
Rejection_LookupLast(key, type, request, credentials) ==
  LET values == request.body.values
  IN IF request.method # "POST" THEN Rejected("BadRequest", "Expecting POST", {})
     ELSE IF authenticate(request, credentials) = "Error"
       THEN Rejected("Unauthorized", "Mesos master", {})
     ELSE IF ~request.body.decoded
       THEN Rejected("BadRequest", "Unable to decode query string", {})
     ELSE IF "slaveId" \notin DOMAIN values
       THEN Rejected("BadRequest", "Missing 'slaveId' query parameter", {})
     ELSE IF key \notin DOMAIN values
       THEN Rejected("BadRequest", "Missing '" \o key \o "' query parameter",
                     {values["slaveId"].slaveId})
     ELSE IF ~values[key].parsed
       THEN Rejected("BadRequest", "Error in parsing '" \o key \o "' query parameter",
                     {values["slaveId"].slaveId})
     ELSE IF values["slaveId"].slaveId \notin registered
       THEN Rejected("BadRequest", "No slave found with specified ID",
                     {values["slaveId"].slaveId})
     ELSE IF ~ValidOperation([type |-> type, resources |-> values[key].resources])
       THEN Rejected("BadRequest", "Invalid " \o type \o " operation",
                     {values["slaveId"].slaveId})
     ELSE Rejected("", "", {values["slaveId"].slaveId})

\* The checks of an endpoint in their order: the first one that fails
\* answers, and an empty code says that none did.
Rejection(key, type, request, credentials) ==
  LET values == request.body.values
  IN IF request.method # "POST" THEN Rejected("BadRequest", "Expecting POST", {})
     ELSE IF authenticate(request, credentials) = "Error"
       THEN Rejected("Unauthorized", "Mesos master", {})
     ELSE IF ~request.body.decoded
       THEN Rejected("BadRequest", "Unable to decode query string", {})
     ELSE IF "slaveId" \notin DOMAIN values
       THEN Rejected("BadRequest", "Missing 'slaveId' query parameter", {})
     ELSE IF values["slaveId"].slaveId \notin registered
       THEN Rejected("BadRequest", "No slave found with specified ID",
                     {values["slaveId"].slaveId})
     ELSE IF key \notin DOMAIN values
       THEN Rejected("BadRequest", "Missing '" \o key \o "' query parameter",
                     {values["slaveId"].slaveId})
     ELSE IF ~values[key].parsed
       THEN Rejected("BadRequest", "Error in parsing '" \o key \o "' query parameter",
                     {values["slaveId"].slaveId})
     ELSE IF ~ValidOperation([type |-> type, resources |-> values[key].resources])
       THEN Rejected("BadRequest", "Invalid " \o type \o " operation",
                     {values["slaveId"].slaveId})
     ELSE Rejected("", "", {values["slaveId"].slaveId})

\* Endpoint validating the operation after the rescission loop has run.
Endpoint_ValidatedLate(op, key, type, request, credentials) ==
  /\ ~aborted
  /\ UNCHANGED <<machines, schedules, registered, aborted, nextOfferId, available, pending>>
  /\ UNCHANGED beyondAdmission
  /\ LET failed == Rejection(key, type, request, credentials)
     IN /\ failed.code # ""
        /\ \E order \in Orders(UNION {OffersOf(slaveId) : slaveId \in failed.slaveIds}) :
             LET calls == Rescind(order, Only("cpus", 1), NoResources,
                                  [type |-> type, resources |-> NoResources], <<>>).calls
             IN /\ offers' = offers \ Removed(calls)
                /\ last' = Admission(op, Asking(failed.slaveIds), failed.code,
                                     failed.message, calls)

\* The four endpoints differ in the name of the parameter, in the operation
\* they build and in the resources they require to be free.
Endpoint(op, key, type, request, credentials) ==
  /\ ~aborted
  /\ UNCHANGED <<machines, schedules, registered, aborted, nextOfferId>>
  /\ UNCHANGED beyondAdmission
  /\ LET failed == Rejection(key, type, request, credentials)
         slaveId == request.body.values["slaveId"].slaveId
         operation == [type |-> type, resources |-> request.body.values[key].resources]
     IN IF failed.code # "" THEN
          /\ last' = Admission(op, Asking(failed.slaveIds), failed.code, failed.message, <<>>)
          /\ UNCHANGED <<offers, available, pending>>
        ELSE
          \E order \in Orders(OffersOf(slaveId)) :
             _operation(op, slaveId, Required(op, operation.resources), operation, order)

\* Master::Http::reserve
reserve(request, credentials) ==
  Endpoint("reserve", "resources", "RESERVE", request, credentials)

\* Master::Http::unreserve
unreserve(request, credentials) ==
  Endpoint("unreserve", "resources", "UNRESERVE", request, credentials)

\* Master::Http::createVolumes
createVolumes(request, credentials) ==
  Endpoint("createVolumes", "volumes", "CREATE", request, credentials)

\* Master::Http::destroyVolumes
destroyVolumes(request, credentials) ==
  Endpoint("destroyVolumes", "volumes", "DESTROY", request, credentials)

\* The future of master->apply resolved: the allocator applied the operation
\* to what the agent has available, or could not.
applyThen(req) ==
  /\ ~aborted
  /\ BagIn(req, pending)
  /\ req.op = "Apply"
  /\ pending' = Resolve(req)
  /\ UNCHANGED <<machines, schedules, registered, aborted, offers, nextOfferId>>
  /\ UNCHANGED beyondAdmission
  /\ IF Applies(available[req.slaveId], req.operation) THEN
       /\ available' = [available EXCEPT ![req.slaveId] = Applied(@, req.operation)]
       /\ last' = Admission("Apply.then", req, "OK", "", <<>>)
     ELSE
       /\ last' = Admission("Apply.then", req, "Conflict", "failure", <<>>)
       /\ UNCHANGED available

\* The allocator offers part of what an agent has available to a framework.
allocate(frameworkId, slaveId, resources) ==
  /\ ~aborted
  /\ slaveId \in registered
  /\ nextOfferId <= MaxOffers
  /\ resources # NoResources
  /\ Contains(available[slaveId], resources)
  /\ offers' = offers \cup {[id |-> nextOfferId, framework_id |-> frameworkId,
                             slave_id |-> slaveId, resources |-> resources]}
  /\ nextOfferId' = nextOfferId + 1
  /\ available' = [available EXCEPT ![slaveId] = Minus(@, resources)]
  /\ last' = Turn("allocate", NoReq, "", {})
  /\ UNCHANGED <<machines, schedules, registered, pending, aborted>>
  /\ UNCHANGED beyondAdmission

\* Bundles of one kind, and of cpus with disk.
Bundles ==
  {NoResources}
  \cup {Only(k, n) : k \in Kinds, n \in 1..MaxRequest}
  \cup {Plus(Only("cpus", n), Only("disk", 1)) : n \in 1..MaxRequest}
  \cup {Plus(Only("reserved_cpus", n), Only("reserved_disk", 1)) : n \in 1..MaxRequest}

\* The decoded bodies: each parameter is there or missing, the resources
\* parse or do not.
Values(key, ids, lists) ==
  {<<>>}
  \cup {[x \in {"slaveId"} |-> id] : id \in ids}
  \cup {[x \in {key} |-> list] : list \in lists}
  \cup {[x \in {"slaveId", key} |-> IF x = "slaveId" THEN pair[1] ELSE pair[2]] :
          pair \in ids \X lists}

Parsed(bundles) == [parsed : {TRUE}, resources : bundles]

Unparsed == [parsed |-> FALSE, resources |-> NoResources]

\* Requests that reach the validation of the operation.
WellFormed(key, slaveIds, bundles) ==
  [method : {"POST"}, authorization : {"valid"},
   body : [decoded : {TRUE},
           values : {[x \in {"slaveId", key} |-> IF x = "slaveId" THEN pair[1] ELSE pair[2]] :
                       pair \in [slaveId : slaveIds] \X Parsed(bundles)}]]

\* Requests of every shape, about one bundle.
AnyShape(key) ==
  [method : {"GET", "POST"}, authorization : {"missing", "valid"},
   body : [decoded : {TRUE},
           values : Values(key, [slaveId : Slaves],
                           Parsed({Only(IF key = "volumes" THEN "volume" ELSE "reserved_disk", 1),
                                   Only("cpus", 1)})
                             \cup {Unparsed})]
            \cup {[decoded |-> FALSE, values |-> <<>>]}]

AnyShapes == [resources |-> AnyShape("resources"), volumes |-> AnyShape("volumes")]

\* What the allocator offers: unreserved bundles, or one reserved cpu.
Offerable ==
  {bundle \in Bundles \ {NoResources} :
     \A k \in Kinds : bundle[k] > 0 =>
        k \in {"cpus", "disk"} \/ (k = "reserved_cpus" /\ bundle[k] = 1)}

\* The requests of `asked`, by the name of their parameter, arrive while at
\* most `waiting` others wait.
AdmissionRequests(asked, waiting) ==
  \/ \E request \in asked["resources"], credentials \in BOOLEAN :
        InFlight <= waiting /\ reserve(request, credentials)
  \/ \E request \in asked["resources"], credentials \in BOOLEAN :
        InFlight <= waiting /\ unreserve(request, credentials)
  \/ \E request \in asked["volumes"], credentials \in BOOLEAN :
        InFlight <= waiting /\ createVolumes(request, credentials)
  \/ \E request \in asked["volumes"], credentials \in BOOLEAN :
        InFlight <= waiting /\ destroyVolumes(request, credentials)

Applications == \E req \in BagToSet(pending) : applyThen(req)

Allocator(frameworkIds, slaveIds, bundles) ==
  \E frameworkId \in frameworkIds, slaveId \in slaveIds, resources \in bundles :
     allocate(frameworkId, slaveId, resources)

Registration(slaveIds) == \E slaveId \in slaveIds : registerSlave(slaveId, 1)

\* What a reservation may ask for, and one thing it may not.
Reservable ==
  {bundle \in Bundles :
     \A k \in Kinds : bundle[k] > 0 => k \in {"reserved_cpus", "reserved_disk"}}
  \cup {Only("cpus", 1)}

\* Reservations of several units on one agent, one request at a time, while
\* the allocator makes offers of any size to two frameworks.
RescissionNext ==
  \/ \E request \in WellFormed("resources", {1}, Reservable) :
        InFlight = 0 /\ reserve(request, TRUE)
  \/ Applications
  \/ Allocator(Frameworks, {1}, Offerable)
  \/ Registration({1})

RescissionSpec == Init /\ [][RescissionNext]_vars

\* Requests of every shape to the four endpoints, one at a time, naming an
\* agent that registers or one that never does, while the allocator makes
\* offers of one unit to one framework.
RejectionNext ==
  \/ AdmissionRequests(AnyShapes, 0)
  \/ Applications
  \/ Allocator({1}, {1}, {Only("cpus", 1), Only("disk", 1)})
  \/ Registration({1})

RejectionSpec == Init /\ [][RejectionNext]_vars

\* ---------------------------------------------------------------- scheduler calls
MaxPipes == 2         \* subscriptions that are made
MaxEvents == 2        \* events the master sends after SUBSCRIBED on one pipe

APPLICATION_JSON == "application/json"
APPLICATION_PROTOBUF == "application/x-protobuf"

\* The calls that the switch of the handler knows.
Dispatched ==
  {"TEARDOWN", "ACCEPT", "DECLINE", "REVIVE", "SUPPRESS", "KILL", "SHUTDOWN",
   "ACKNOWLEDGE", "RECONCILE", "MESSAGE", "REQUEST"}

CallTypes == {"SUBSCRIBE"} \cup Dispatched

\* A pipe as http.cpp makes it, before anything is written.
Pipe(contentType) ==
  [contentType |-> contentType, framework_id |-> 0, submitted |-> <<>>, queue |-> <<>>,
   delivered |-> <<>>, open |-> TRUE]

\* Writer putting the newest event in front of the waiting ones.
write_InFront(pipe, event) ==
  IF pipe.open THEN [pipe EXCEPT !.queue = <<event>> \o @] ELSE pipe

\* Pipe::Writer::write: the data waits behind what was written before; writing
\* to a closed pipe does nothing.
write(pipe, event) ==
  IF pipe.open THEN [pipe EXCEPT !.queue = Append(@, event)] ELSE pipe

\* HttpConnection::send: the event is encoded and written; `submitted` keeps
\* what the master has sent while the pipe was open.
send(pipe, event) ==
  IF pipe.open THEN [write(pipe, event) EXCEPT !.submitted = Append(@, event)] ELSE pipe

\* Pipe::Writer::close and Pipe::Reader::close.
close(pipe) == [pipe EXCEPT !.open = FALSE]

NULL == [state |-> "NULL", http |-> 0]

\* A lookup that still finds the frameworks that were removed.
getFramework_Removed(frameworkId) ==
  IF frameworkId \in Frameworks /\ frameworks[frameworkId].state # "unknown"
    THEN frameworks[frameworkId]
    ELSE NULL

\* Master::getFramework: the registered framework with this id, or NULL.
getFramework(frameworkId) ==
  IF frameworkId \in Frameworks /\ frameworks[frameworkId].state \in {"connected", "disconnected"}
    THEN frameworks[frameworkId]
    ELSE NULL

\* A framework counting as connected whenever it is registered.
connected_WhenRegistered(framework) == framework.state \in {"connected", "disconnected"}

\* framework->connected
connected(framework) == framework.state = "connected"

\* The pipes after the one of this framework, if it has one, was closed.
Closed(frameworkId) ==
  [p \in DOMAIN pipes |->
     IF p = frameworks[frameworkId].http THEN close(pipes[p]) ELSE pipes[p]]

\* A call of the master by the handler.
MasterCall(call, frameworkId, argument) ==
  [call |-> call, framework |-> frameworkId, argument |-> argument]

\* Master::subscribe(http, subscribe): the framework is added or fails over
\* to the new connection, whose first event is SUBSCRIBED; the connection it
\* had is closed.  A framework that was removed is told so and is not added.
\* (A FrameworkInfo without an id is given one the master has not used: in
\* the model, the call names an unknown id.)
subscribe(contentType, frameworkId) ==
  LET http == Len(pipes) + 1
      pipe == [Pipe(contentType) EXCEPT !.framework_id = frameworkId]
  IN /\ UNCHANGED <<offers, available>>
     /\ IF frameworks[frameworkId].state = "completed" THEN
          /\ pipes' = Append(pipes, close(send(pipe, "ERROR")))
          /\ UNCHANGED frameworks
        ELSE
          /\ pipes' = Append(Closed(frameworkId), send(pipe, "SUBSCRIBED"))
          /\ frameworks' = [frameworks EXCEPT
                              ![frameworkId] = [state |-> "connected", http |-> http]]

\* Master::removeFramework: the framework is gone, its connection is closed,
\* its offers are removed and their resources go back to the allocator.
removeFramework(frameworkId) ==
  LET removed == {offer \in offers : offer.framework_id = frameworkId}
  IN /\ frameworks' = [frameworks EXCEPT ![frameworkId] = [state |-> "completed", http |-> 0]]
     /\ pipes' = Closed(frameworkId)
     /\ offers' = offers \ removed
     /\ available' = Returned(available, removed)

\* Master::accept and Master::decline: the offers of the framework that the
\* call names are removed; declined resources go back to the allocator,
\* accepted ones are used.
respond(call, frameworkId, offerIds) ==
  LET removed == {offer \in offers : offer.framework_id = frameworkId /\ offer.id \in offerIds}
  IN /\ offers' = offers \ removed
     /\ available' = IF call = "decline" THEN Returned(available, removed) ELSE available
     /\ UNCHANGED <<frameworks, pipes>>

\* The master's function for every call of the switch, with DECLINE going
\* to the function of ACCEPT.
ActionOf_DeclineAccepts ==
  [TEARDOWN |-> "removeFramework", ACCEPT |-> "accept", DECLINE |-> "accept",
   REVIVE |-> "revive", SUPPRESS |-> "suppress", KILL |-> "kill", SHUTDOWN |-> "shutdown",
   ACKNOWLEDGE |-> "acknowledge", RECONCILE |-> "reconcile", MESSAGE |-> "message",
   REQUEST |-> "request"]

\* The master's function for every call of the switch.
ActionOf ==
  [TEARDOWN |-> "removeFramework", ACCEPT |-> "accept", DECLINE |-> "decline",
   REVIVE |-> "revive", SUPPRESS |-> "suppress", KILL |-> "kill", SHUTDOWN |-> "shutdown",
   ACKNOWLEDGE |-> "acknowledge", RECONCILE |-> "reconcile", MESSAGE |-> "message",
   REQUEST |-> "request"]

\* The effect of the master's function on the frameworks, the pipes and the
\* offers; the functions about tasks, filters and messages have none there.
MasterAction(call, frameworkId, offerIds) ==
  IF call = "removeFramework" THEN removeFramework(frameworkId)
  ELSE IF call \in {"accept", "decline"} THEN respond(call, frameworkId, offerIds)
  ELSE UNCHANGED <<frameworks, pipes, offers, available>>

\* The answer of a check of the scheduler handler that failed.
Refused(code, message) == [code |-> code, message |-> message]

\* Checks looking at the method before the election and the recovery.
Unfit_MethodFirst(request) ==
  IF request.method # "POST" THEN Refused("MethodNotAllowed", "Expecting a 'POST' request")
  ELSE IF ~master.elected THEN Refused("ServiceUnavailable", "Not the leading master")
  ELSE IF ~master.recovered
    THEN Refused("ServiceUnavailable", "Master has not finished recovery")
  ELSE IF master.authenticate_frameworks
    THEN Refused("Unauthorized",
                 "HTTP schedulers are not supported when authentication is required")
  ELSE IF request.contentType = ""
    THEN Refused("BadRequest", "Expecting 'Content-Type' to be present")
  ELSE IF request.contentType \notin {APPLICATION_JSON, APPLICATION_PROTOBUF}
    THEN Refused("UnsupportedMediaType", "Expecting 'Content-Type' of json or protobuf")
  ELSE IF ~request.parses THEN Refused("BadRequest", "Failed to parse body")
  ELSE IF ~request.valid THEN Refused("BadRequest", "Failed to validate Scheduler::Call")
  ELSE Refused("", "")

\* Checks parsing the body whatever its Content-Type says.
Unfit_AnyContentType(request) ==
  IF ~master.elected THEN Refused("ServiceUnavailable", "Not the leading master")
  ELSE IF ~master.recovered
    THEN Refused("ServiceUnavailable", "Master has not finished recovery")
  ELSE IF master.authenticate_frameworks
    THEN Refused("Unauthorized",
                 "HTTP schedulers are not supported when authentication is required")
  ELSE IF request.method # "POST" THEN Refused("MethodNotAllowed", "Expecting a 'POST' request")
  ELSE IF request.contentType = ""
    THEN Refused("BadRequest", "Expecting 'Content-Type' to be present")
  ELSE IF ~request.parses THEN Refused("BadRequest", "Failed to parse body")
  ELSE IF ~request.valid THEN Refused("BadRequest", "Failed to validate Scheduler::Call")
  ELSE Refused("", "")

\* The checks of the handler before it looks at the type of the call.
Unfit(request) ==
  IF ~master.elected THEN Refused("ServiceUnavailable", "Not the leading master")
  ELSE IF ~master.recovered
    THEN Refused("ServiceUnavailable", "Master has not finished recovery")
  ELSE IF master.authenticate_frameworks
    THEN Refused("Unauthorized",
                 "HTTP schedulers are not supported when authentication is required")
  ELSE IF request.method # "POST" THEN Refused("MethodNotAllowed", "Expecting a 'POST' request")
  ELSE IF request.contentType = ""
    THEN Refused("BadRequest", "Expecting 'Content-Type' to be present")
  ELSE IF request.contentType \notin {APPLICATION_JSON, APPLICATION_PROTOBUF}
    THEN Refused("UnsupportedMediaType", "Expecting 'Content-Type' of json or protobuf")
  ELSE IF ~request.parses THEN Refused("BadRequest", "Failed to parse body")
  ELSE IF ~request.valid THEN Refused("BadRequest", "Failed to validate Scheduler::Call")
  ELSE Refused("", "")

\* What is kept of a request whose call the handler did not get to.
NoCall == [type |-> "", framework_id |-> 0, offer_ids |-> {}]

\* The turn of the handler: the call it got to, its response, the calls of
\* the master it made, and the form of the request it answered.
Scheduled(request, call, code, message, calls) ==
  [op |-> "scheduler", req |-> call, code |-> code, body |-> message, registrar |-> "",
   sent |-> {}, calls |-> calls,
   request |-> [method |-> request.method, contentType |-> request.contentType,
                parses |-> request.parses, valid |-> request.valid,
                accept |-> request.accept]]

\* The answer of the handler to a request that changes nothing.
Reply(request, call, code, message) ==
  /\ last' = Scheduled(request, call, code, message, <<>>)
  /\ UNCHANGED <<frameworks, pipes, offers, available, aborted>>

\* Negotiation preferring the compact encoding.
responseContentType_ProtobufFirst(request) ==
  IF APPLICATION_PROTOBUF \in request.accept THEN "PROTOBUF"
  ELSE IF APPLICATION_JSON \in request.accept THEN "JSON"
  ELSE ""

\* The encoding of the events of a subscription: JSON if the request accepts
\* it, else PROTOBUF if it accepts that, else none.
responseContentType(request) ==
  IF APPLICATION_JSON \in request.accept THEN "JSON"
  ELSE IF APPLICATION_PROTOBUF \in request.accept THEN "PROTOBUF"
  ELSE ""

\* Handler looking at the type of the call before it looks for the framework.
scheduler_DispatchFirst(request) ==
  LET call == request.call
  IN /\ ~aborted
     /\ UNCHANGED <<machines, schedules, registered, pending, nextOfferId, master>>
     /\ Unfit(request).code = ""
     /\ call.type \in Dispatched
     /\ MasterAction(ActionOf[call.type], call.framework_id, call.offer_ids)
     /\ UNCHANGED aborted
     /\ last' = Scheduled(request, call, "Accepted", "",
                          <<MasterCall(ActionOf[call.type], call.framework_id,
                                       call.offer_ids)>>)

\* Master::Http::scheduler.
scheduler(request) ==
  LET failed == Unfit(request)
      call == request.call
      framework == getFramework(call.framework_id)
  IN /\ ~aborted
     /\ UNCHANGED <<machines, schedules, registered, pending, nextOfferId, master>>
     /\ IF failed.code # "" THEN Reply(request, NoCall, failed.code, failed.message)
        ELSE IF call.type = "SUBSCRIBE" THEN
          IF responseContentType(request) = ""
            THEN Reply(request, call, "NotAcceptable",
                       "Expecting 'Accept' to allow protobuf or json")
          ELSE
            /\ subscribe(responseContentType(request), call.framework_id)
            /\ UNCHANGED aborted
            /\ last' = Scheduled(request, call, "OK", "PIPE",
                                 <<MasterCall("subscribe", call.framework_id,
                                              [http |-> Len(pipes) + 1,
                                               contentType |-> responseContentType(request)])>>)
        ELSE IF framework = NULL
          THEN Reply(request, call, "BadRequest", "Framework cannot be found")
        ELSE IF ~connected(framework)
          THEN Reply(request, call, "Forbidden", "Framework is not subscribed")
        ELSE IF call.type \in Dispatched THEN
          /\ MasterAction(ActionOf[call.type], call.framework_id, call.offer_ids)
          /\ UNCHANGED aborted
          /\ last' = Scheduled(request, call, "Accepted", "",
                               <<MasterCall(ActionOf[call.type], call.framework_id,
                                            call.offer_ids)>>)
        ELSE
          \* LOG(FATAL)
          /\ aborted' = TRUE
          /\ last' = Scheduled(request, call, "", "Unexpected call", <<>>)
          /\ UNCHANGED <<frameworks, pipes, offers, available>>

\* What no turn of the master about frameworks and pipes touches.
beyondScheduler ==
  <<machines, schedules, registered, pending, aborted, nextOfferId>>

\* The master wins the election, and finishes its recovery.
elected ==
  /\ ~aborted /\ ~master.elected
  /\ master' = [master EXCEPT !.elected = TRUE]
  /\ last' = Turn("elected", NoReq, "", {})
  /\ UNCHANGED <<frameworks, pipes, offers, available>>
  /\ UNCHANGED beyondScheduler

recover ==
  /\ ~aborted /\ master.elected /\ ~master.recovered
  /\ master' = [master EXCEPT !.recovered = TRUE]
  /\ last' = Turn("recover", NoReq, "", {})
  /\ UNCHANGED <<frameworks, pipes, offers, available>>
  /\ UNCHANGED beyondScheduler

\* The master has an event for a framework that is connected.
emit(frameworkId, event) ==
  /\ ~aborted
  /\ connected(frameworks[frameworkId])
  /\ Len(pipes[frameworks[frameworkId].http].submitted) <= MaxEvents
  /\ pipes' = [pipes EXCEPT ![frameworks[frameworkId].http] = send(@, event)]
  /\ last' = Turn("emit", NoReq, "", {})
  /\ UNCHANGED <<frameworks, offers, available, master>>
  /\ UNCHANGED beyondScheduler

\* Pipe::Reader::read: the client gets what has waited longest.
read(p) ==
  /\ ~aborted
  /\ p \in DOMAIN pipes
  /\ pipes[p].queue # <<>>
  /\ pipes' = [pipes EXCEPT ![p].queue = Tail(@),
                            ![p].delivered = Append(@, Head(pipes[p].queue))]
  /\ last' = Turn("read", NoReq, "", {})
  /\ UNCHANGED <<frameworks, offers, available, master>>
  /\ UNCHANGED beyondScheduler

\* Master::exited: the client has closed its end of the pipe; the framework
\* that was still using it is not connected any more.
exited(p) ==
  /\ ~aborted
  /\ p \in DOMAIN pipes
  /\ pipes[p].open
  /\ pipes' = [pipes EXCEPT ![p] = close(@)]
  /\ frameworks' = [f \in Frameworks |->
                      IF frameworks[f].http = p /\ connected(frameworks[f])
                        THEN [frameworks[f] EXCEPT !.state = "disconnected"]
                        ELSE frameworks[f]]
  /\ last' = Turn("exited", NoReq, "", {})
  /\ UNCHANGED <<offers, available, master>>
  /\ UNCHANGED beyondScheduler

\* The failover timeout of a framework that did not come back.
frameworkFailoverTimeout(frameworkId) ==
  /\ ~aborted
  /\ frameworks[frameworkId].state = "disconnected"
  /\ removeFramework(frameworkId)
  /\ last' = Turn("frameworkFailoverTimeout", NoReq, "", {})
  /\ UNCHANGED master
  /\ UNCHANGED beyondScheduler

\* Calls in a request that passes the checks on its form.
Posted(calls, accepts) ==
  [method : {"POST"}, contentType : {APPLICATION_JSON}, parses : {TRUE}, valid : {TRUE},
   accept : accepts, call : calls]

Calls(types, frameworkIds) ==
  [type : types, framework_id : frameworkIds, offer_ids : {{}}]

\* ACCEPT and DECLINE calls about one offer.
Responses(frameworkIds) ==
  [type : {"ACCEPT", "DECLINE"}, framework_id : frameworkIds,
   offer_ids : {{id} : id \in 1..MaxOffers}]

SchedulerRequests(requests) ==
  \E request \in requests :
     /\ request.call.type = "SUBSCRIBE" => Len(pipes) < MaxPipes
     /\ scheduler(request)

Election == elected \/ recover

Events == \E frameworkId \in Frameworks, event \in {"OFFERS", "RESCIND"} : emit(frameworkId, event)

Clients == \E p \in 1..MaxPipes : read(p) \/ exited(p)

Timeouts == \E frameworkId \in Frameworks : frameworkFailoverTimeout(frameworkId)

\* The allocator makes offers to the frameworks that are connected.
Offering(slaveIds, bundles) ==
  \E frameworkId \in Frameworks, slaveId \in slaveIds, resources \in bundles :
     connected(frameworks[frameworkId]) /\ allocate(frameworkId, slaveId, resources)

\* Requests of every form: method, Content-Type, body, verdict of the
\* validation, Accept.  A request without an Accept header accepts both
\* encodings.
AnyForm(calls) ==
  [method : {"GET", "POST"},
   contentType : {"", APPLICATION_JSON, APPLICATION_PROTOBUF, "text/plain"},
   parses : BOOLEAN, valid : BOOLEAN,
   accept : SUBSET {APPLICATION_JSON, APPLICATION_PROTOBUF}, call : calls]

\* A master started with or without --authenticate_frameworks gets requests
\* of every form about one framework, before and after it is elected and
\* has recovered.
PreconditionInit == \E authenticate_frameworks \in BOOLEAN : Constructed(authenticate_frameworks)

PreconditionNext ==
  \/ SchedulerRequests(AnyForm(Calls({"SUBSCRIBE", "TEARDOWN", "REVIVE"}, {1})))
  \/ Election
  \/ \E p \in 1..MaxPipes : exited(p)
  \/ Timeouts

PreconditionSpec == PreconditionInit /\ [][PreconditionNext]_vars

\* Calls of every type, one of them unexpected, while frameworks subscribe,
\* get offers, lose their connection and are removed.
DispatchNext ==
  \/ SchedulerRequests(Posted(Calls(CallTypes \cup {"OTHER"}, Frameworks)
                                \cup Responses(Frameworks),
                              {{APPLICATION_JSON}}))
  \/ Offering({1}, {Only("cpus", 1)})
  \/ Registration({1})
  \/ Election
  \/ \E p \in 1..MaxPipes : exited(p)
  \/ Timeouts

DispatchSpec == Init /\ [][DispatchNext]_vars

\* Subscriptions and teardowns while the master sends events and the clients
\* read them.
SubscriptionNext ==
  \/ SchedulerRequests(Posted(Calls({"SUBSCRIBE", "TEARDOWN"}, Frameworks),
                              {{APPLICATION_JSON}, {APPLICATION_PROTOBUF}}))
  \/ Election
  \/ Events
  \/ Clients
  \/ Timeouts

SubscriptionSpec == Init /\ [][SubscriptionNext]_vars

\* ---------------------------------------------------------------- operator teardown
\* The authorization of a ShutdownFramework request whose future has no
\* value yet.
Authorize(frameworkId) == [op |-> "Authorize", framework_id |-> frameworkId]

\* _teardown removing whatever the id names.
_teardown_NoLookup(op, req, id) ==
  /\ removeFramework(id)
  /\ last' = Admission(op, req, "OK", "", <<MasterCall("removeFramework", id, {})>>)

\* Master::Http::_teardown
_teardown(op, req, id) ==
  IF getFramework(id) = NULL THEN
    /\ last' = Admission(op, req, "BadRequest", "No framework found with ID", <<>>)
    /\ UNCHANGED <<frameworks, pipes, offers, available>>
  ELSE
    /\ removeFramework(id)
    /\ last' = Admission(op, req, "OK", "", <<MasterCall("removeFramework", id, {})>>)

\* Master::Http::teardown, for a master with or without credentials and with
\* or without an authorizer.  A frameworkId of 0 is a missing parameter.
teardown(request, credentials, authorizer) ==
  LET req == [request |-> request, credentials |-> credentials, authorizer |-> authorizer]
      id == request.frameworkId
      Refuse(code, message) ==
        /\ last' = Admission("teardown", req, code, message, <<>>)
        /\ UNCHANGED <<frameworks, pipes, offers, available, pending>>
  IN /\ ~aborted
     /\ UNCHANGED <<machines, schedules, registered, aborted, nextOfferId, master>>
     /\ IF request.method # "POST" THEN Refuse("BadRequest", "Expecting POST")
        ELSE IF authenticate(request, credentials) = "Error"
          THEN Refuse("Unauthorized", "Mesos master")
        ELSE IF ~request.decoded THEN Refuse("BadRequest", "Unable to decode query string")
        ELSE IF id = 0 THEN Refuse("BadRequest", "Missing 'frameworkId' query parameter")
        ELSE IF getFramework(id) = NULL
          THEN Refuse("BadRequest", "No framework found with specified ID")
        ELSE IF ~authorizer THEN
          /\ _teardown("teardown", req, id)
          /\ UNCHANGED pending
        ELSE
          /\ pending' = Submit(Authorize(id))
          /\ last' = Admission("teardown", req, "Pending", "",
                               <<MasterCall("authorize", id, {})>>)
          /\ UNCHANGED <<frameworks, pipes, offers, available>>

\* Continuation tearing down whatever the authorizer answered.
authorizeThen_Unchecked(req, authorized) ==
  LET answered == [framework_id |-> req.framework_id, authorized |-> authorized]
  IN /\ ~aborted
     /\ BagIn(req, pending)
     /\ req.op = "Authorize"
     /\ pending' = Resolve(req)
     /\ UNCHANGED <<machines, schedules, registered, aborted, nextOfferId, master>>
     /\ _teardown("Authorize.then", answered, req.framework_id)

\* The continuation of authorize(shutdown), deferred to the master.
authorizeThen(req, authorized) ==
  LET answered == [framework_id |-> req.framework_id, authorized |-> authorized]
  IN /\ ~aborted
     /\ BagIn(req, pending)
     /\ req.op = "Authorize"
     /\ pending' = Resolve(req)
     /\ UNCHANGED <<machines, schedules, registered, aborted, nextOfferId, master>>
     /\ IF ~authorized THEN
          /\ last' = Admission("Authorize.then", answered, "Unauthorized", "Mesos master", <<>>)
          /\ UNCHANGED <<frameworks, pipes, offers, available>>
        ELSE _teardown("Authorize.then", answered, req.framework_id)

\* Teardown requests of every shape.
TeardownRequests ==
  [method : {"GET", "POST"}, authorization : {"missing", "valid"}, decoded : BOOLEAN,
   frameworkId : {0} \cup Frameworks]

Teardowns ==
  \E request \in TeardownRequests, credentials \in BOOLEAN, authorizer \in BOOLEAN :
     InFlight < MaxInFlight /\ teardown(request, credentials, authorizer)

Authorizations ==
  \E req \in BagToSet(pending), authorized \in BOOLEAN : authorizeThen(req, authorized)

\* Operators and schedulers tear frameworks down while authorizations are on
\* their way and the frameworks hold offers.
TeardownNext ==
  \/ Teardowns
  \/ Authorizations
  \/ SchedulerRequests(Posted(Calls({"SUBSCRIBE", "TEARDOWN"}, Frameworks),
                              {{APPLICATION_JSON}}))
  \/ Election
  \/ Offering({1}, {Only("cpus", 1)})
  \/ Registration({1})

TeardownSpec == Init /\ [][TeardownNext]_vars

\* ---------------------------------------------------------------- the store
\* The schedule of one window that lists these machines, in JSON.
Listing(ids) ==
  {body \in JsonSchedules({1}) :
     \E member \in body : Len(member[2]) = 1 /\ member[2][1].machine_ids = ids}

\* Maintenance requests of these bodies arrive while at most `waiting`
\* other requests wait.
Maintaining(bodies, lists, waiting) ==
  \/ \E body \in bodies : InFlight <= waiting /\ maintenanceSchedule("POST", body)
  \/ \E body \in lists : InFlight <= waiting /\ machineDown("POST", body)
  \/ \E body \in lists : InFlight <= waiting /\ machineUp("POST", body)

\* Operator teardowns that pass every check but the lookup, on a master
\* without credentials and without an authorizer.
OperatorTeardowns(frameworkIds) ==
  \E request \in [method : {"POST"}, authorization : {"missing"}, decoded : {TRUE},
                  frameworkId : frameworkIds] :
     teardown(request, FALSE, FALSE)

\* Everything that adds or removes an offer, a framework or an agent:
\* frameworks subscribe and are torn down by themselves and by the operator,
\* agents register on the machines and leave when machine 1 is brought down, the
\* allocator makes offers and reservations rescind them.
StoreNext ==
  \/ Maintaining(Listing(<<1>>), {{1}}, 0)
  \/ Continuations
  \/ Environment(Slaves)
  \/ Offering(Slaves, {Only("cpus", 1)})
  \/ SchedulerRequests(Posted(Calls({"SUBSCRIBE", "TEARDOWN"}, Frameworks),
                              {{APPLICATION_JSON}}))
  \/ Election
  \/ OperatorTeardowns({1})
  \/ \E request \in WellFormed("resources", {1}, {Only("reserved_cpus", 1)}) :
        InFlight = 0 /\ reserve(request, TRUE)
  \/ Applications

StoreSpec == Init /\ [][StoreNext]_vars

\* Requests overlap: schedules of both machines or of none, machine-down and
\* machine-up of both, and reservations of two cpus on an agent whose cpus
\* the allocator offers one by one, while up to MaxInFlight futures of the
\* registrar and the allocator have not resolved.
OverlapNext ==
  \/ Maintaining({{}} \cup Listing(<<1, 2>>), {{1, 2}}, MaxInFlight - 1)
  \/ Continuations
  \/ Registration(Slaves)
  \/ Allocator({1}, {1}, {Only("cpus", 1)})
  \/ \E request \in WellFormed("resources", {1}, {Only("reserved_cpus", 2)}) :
        reserve(request, TRUE)
  \/ Applications

OverlapSpec == Init /\ [][OverlapNext]_vars

\* Reservations on two agents, several of them on their way at a time, while
\* the allocator offers the cpus of both agents one by one and machine 2,
\* which has no agent, is scheduled, brought down and up.
FrameNext ==
  \/ \E request \in WellFormed("resources", Slaves,
                                {Only("reserved_cpus", 1), Only("reserved_cpus", 2)}) :
        reserve(request, TRUE)
  \/ Applications
  \/ Allocator({1}, Slaves, {Only("cpus", 1)})
  \/ Registration(Slaves)
  \/ Maintaining(Listing(<<2>>), {{2}}, 0)
  \/ Continuations

FrameSpec == Init /\ [][FrameNext]_vars

\* ---------------------------------------------------------------- futures
\* The future of a request resolves, with any value, and the continuation
\* that was deferred to the master takes its turn.
resolved(req) ==
  \/ \E result \in BOOLEAN : maintenanceScheduleThen(req, result)
  \/ \E result \in BOOLEAN : machineDownThen(req, result)
  \/ \E result \in BOOLEAN : machineUpThen(req, result)
  \/ applyThen(req)
  \/ \E authorized \in BOOLEAN : authorizeThen(req, authorized)

\* The futures that the requests of LiveNext wait for.
Futures ==
  {[op |-> "UpdateSchedule", schedule |-> ParseSchedule(body), ids |-> {}] :
     body \in Listing(<<1>>)}
  \cup [op : {"StartMaintenance", "StopMaintenance"}, schedule : {EmptySchedule}, ids : {{1}}]
  \cup {Apply(1, operation) :
          operation \in [type : {"RESERVE"}, resources : {Only("reserved_cpus", 1)}]}
  \cup {Authorize(1)}

\* Maintenance requests, reservations and authorized teardowns wait for
\* their futures while a framework subscribes, keeps its connection open
\* and makes calls.
LiveNext ==
  \/ Maintaining(Listing(<<1>>), {{1}}, MaxInFlight - 1)
  \/ \E request \in WellFormed("resources", {1}, {Only("reserved_cpus", 1)}) :
        reserve(request, TRUE)
  \/ \E request \in [method : {"POST"}, authorization : {"missing"}, decoded : {TRUE},
                     frameworkId : {1}] :
        InFlight < MaxInFlight /\ teardown(request, FALSE, TRUE)
  \/ \E req \in BagToSet(pending) : resolved(req)
  \/ SchedulerRequests(Posted(Calls({"SUBSCRIBE", "REVIVE"}, {1}), {{APPLICATION_JSON}}))
  \/ Election
  \/ Registration({1})

\* Every future resolves, and the master gives the continuation its turn.
LiveSpec == Init /\ [][LiveNext]_vars /\ \A req \in Futures : WF_vars(resolved(req))

\* ---------------------------------------------------------------- claims
\* C1: no machine's mode ever changes directly from UP to DOWN or from DOWN to
\* DRAINING, whatever the interleaving of the requests.
C1_OnlyLegalTransitions ==
  [][\A id \in DOMAIN machines :
        /\ ~(machines[id].mode = "UP" /\ machines'[id].mode = "DOWN")
        /\ ~(machines[id].mode = "DOWN" /\ machines'[id].mode = "DRAINING")]_vars

\* C2: a machine that is DOWN leaves DOWN only through a successful machine-up
\* request naming it; no schedule update changes its mode.
C2_DownLeavesOnlyByMachineUp ==
  [][\A id \in DOMAIN machines :
        (machines[id].mode = "DOWN" /\ machines'[id].mode # "DOWN")
          => /\ last'.op = "StopMaintenance.then"
             /\ last'.code = "OK"
             /\ id \in last'.req.ids]_vars

ScheduleUpdated == last.op = "UpdateSchedule.then" /\ last.code = "OK"

\* C3: after an accepted schedule update every known machine absent from the
\* new schedule is UP without unavailability, every machine of the new
\* schedule is known and DRAINING with the unavailability of its window, and
\* the stored schedule is the new one.
C3_ScheduleUpdateIsDiff ==
  ScheduleUpdated =>
    LET new == last.req.schedule
    IN /\ \A id \in DOMAIN machines \ MachinesOf(new) :
            machines[id].mode = "UP" /\ machines[id].unavailability = {}
       /\ \A i \in DOMAIN new.windows : \A id \in Range(new.windows[i].machine_ids) :
            /\ id \in DOMAIN machines
            /\ machines[id].mode = "DRAINING"
            /\ machines[id].unavailability = {new.windows[i].unavailability}
       /\ schedules = <<new>>

\* An update that dropped one machine (known, no longer listed) and lists
\* another one.
C3_Witness ==
  /\ ScheduleUpdated
  /\ \E id \in DOMAIN machines \ MachinesOf(last.req.schedule) : machines[id].slaves = {}
  /\ MachinesOf(last.req.schedule) # {}

\* C4: a machine-down request naming a machine that is unknown or not
\* DRAINING is answered BadRequest; nothing is submitted to the registrar, no
\* agent is shut down or removed and no machine changes.
C4_MachineDownAllOrNothing ==
  [][(/\ last'.op = "machineDown"
      /\ last'.req.op = "StartMaintenance"
      /\ \E id \in last'.req.ids :
            id \notin DOMAIN machines \/ machines[id].mode # "DRAINING")
       => /\ last'.code = "BadRequest"
          /\ last'.sent = {}
          /\ UNCHANGED <<machines, schedules, registered, pending>>]_vars

\* A rejected machine-down request that names a DRAINING machine and one that
\* is not.
C4_Witness ==
  /\ last.op = "machineDown"
  /\ last.code = "BadRequest"
  /\ \E a, b \in last.req.ids :
        /\ a \in DOMAIN machines /\ machines[a].mode = "DRAINING"
        /\ b \notin DOMAIN machines \/ machines[b].mode # "DRAINING"

\* C5: a successful machine-down removes every agent that was on a targeted
\* machine when the continuation ran and marks every targeted machine DOWN,
\* in the turn that sends the shutdown messages; no targeted machine keeps an
\* agent.
C5_MachineDownRemovesAgents ==
  [][(last'.op = "StartMaintenance.then" /\ last'.code = "OK")
       => \A id \in last'.req.ids :
             /\ id \in DOMAIN machines'
             /\ machines'[id].mode = "DOWN"
             /\ machines'[id].slaves = {}
             /\ \A s \in At(machines, id).slaves :
                   /\ s \notin registered'
                   /\ \A m \in DOMAIN machines' : s \notin machines'[m].slaves]_vars

\* A machine-down of two machines that shut down two agents.
C5_Witness ==
  /\ last.op = "StartMaintenance.then"
  /\ last.code = "OK"
  /\ Cardinality(last.req.ids) = 2
  /\ Cardinality(last.sent) = 2
  /\ registered = {}

\* C6: a machine-up request naming a machine that is unknown or not DOWN is
\* answered BadRequest and changes nothing; any other one is submitted, and
\* when its continuation has run every machine it names is UP without
\* unavailability.
C6_MachineUpAllOrNothing ==
  [][/\ (/\ last'.op = "machineUp"
         /\ last'.req.op = "StopMaintenance"
         /\ \E id \in last'.req.ids :
               id \notin DOMAIN machines \/ machines[id].mode # "DOWN")
          => /\ last'.code = "BadRequest"
             /\ UNCHANGED <<machines, schedules, registered, pending>>
     /\ (/\ last'.op = "machineUp"
         /\ last'.req.op = "StopMaintenance"
         /\ \A id \in last'.req.ids :
               id \in DOMAIN machines /\ machines[id].mode = "DOWN")
          => /\ last'.code = "Pending"
             /\ BagIn(last'.req, pending')
     /\ (last'.op = "StopMaintenance.then" /\ last'.code = "OK")
          => \A id \in last'.req.ids :
                /\ id \in DOMAIN machines'
                /\ machines'[id].mode = "UP"
                /\ machines'[id].unavailability = {}]_vars

\* A rejected machine-up request that names a DOWN machine and one that is
\* not.
C6_Witness ==
  /\ last.op = "machineUp"
  /\ last.code = "BadRequest"
  /\ \E a, b \in last.req.ids :
        /\ a \in DOMAIN machines /\ machines[a].mode = "DOWN"
        /\ b \notin DOMAIN machines \/ machines[b].mode # "DOWN"

\* The places <<schedule, window, index>> of the stored schedules.
Places(scheds) ==
  UNION {UNION {{<<i, j, k>> : k \in DOMAIN scheds[i].windows[j].machine_ids} :
                j \in DOMAIN scheds[i].windows} :
         i \in DOMAIN scheds}

MachineAt(scheds, p) == scheds[p[1]].windows[p[2]].machine_ids[p[3]]

Listed(scheds) == {MachineAt(scheds, p) : p \in Places(scheds)}

PlaceOf(scheds, id) == CHOOSE p \in Places(scheds) : MachineAt(scheds, p) = id

Earlier(p, q) ==
  \/ p[1] < q[1]
  \/ p[1] = q[1] /\ p[2] < q[2]
  \/ p[1] = q[1] /\ p[2] = q[2] /\ p[3] < q[3]

SameWindow(p, q) == p[1] = q[1] /\ p[2] = q[2]

UnavailabilityAt(scheds, p) == scheds[p[1]].windows[p[2]].unavailability

C8_ScheduleRoundTrip ==
  [][/\ (last'.op = "UpdateSchedule.then" /\ last'.code = "OK")
          => schedules' = <<last'.req.schedule>>
     /\ last'.op = "maintenanceSchedule.GET"
          => /\ last'.code = "OK"
             /\ UNCHANGED schedules
             /\ (last.op = "UpdateSchedule.then" /\ last.code = "OK")
                  => ParseSchedule(last'.body) = last.req.schedule
             /\ schedules # <<>> => ParseSchedule(last'.body) = schedules[1]
             /\ schedules = <<>> => ParseSchedule(last'.body) = EmptySchedule]_vars

\* A GET answered with a stored schedule of two windows.
C8_Witness ==
  /\ last.op = "maintenanceSchedule.GET"
  /\ last.code = "OK"
  /\ Len(ParseSchedule(last.body).windows) = 2
  /\ ParseSchedule(last.body) = Head(schedules)

Continuation == {"UpdateSchedule.then", "StartMaintenance.then", "StopMaintenance.then"}

\* C9: machines, agent membership and the stored schedule change only in the
\* continuation of a request that was waiting on the registrar and whose
\* future resolved to true (or when an agent registers); the turn that
\* accepts a request changes none of them.
C9_ViewChangesOnlyAfterPersistence ==
  [][(machines' # machines \/ schedules' # schedules \/ registered' # registered)
       => \/ last'.op = "registerSlave"
          \/ /\ last'.op \in Continuation
             /\ last'.registrar = "true"
             /\ BagIn(last'.req, pending)]_vars

\* A machine-down request that was accepted and waits on the registrar while
\* its machines are still DRAINING.
C9_Witness ==
  /\ last.op = "machineDown"
  /\ last.code = "Pending"
  /\ BagIn(last.req, pending)
  /\ \A id \in last.req.ids : machines[id].mode = "DRAINING"

\* C10: a continuation called with a registrar result of false aborts the
\* master, answers nothing and changes no machine, agent set or schedule.
C10_RegistrarFailureIsFatal ==
  [][(last'.op \in Continuation /\ last'.registrar = "false")
       => /\ aborted'
          /\ last'.code = "ABORT"
          /\ UNCHANGED <<machines, schedules, registered>>]_vars

\* A failed StartMaintenance: the master is gone, the machine still DRAINING
\* with its agent.
C10_Witness ==
  /\ last.op = "StartMaintenance.then"
  /\ last.registrar = "false"
  /\ aborted
  /\ \E id \in last.req.ids : machines[id].mode = "DRAINING" /\ machines[id].slaves # {}

\* The value of a member of a JSON object; a repeated field that was left out
\* has no elements.
Member(json, key) ==
  IF \E kv \in json : kv[1] = key THEN (CHOOSE kv \in json : kv[1] = key)[2] ELSE <<>>

StatusAnswered == last.op = "GetInverseOfferStatuses.then"

\* The answer `turn` reports the modes of `machs` and the statuses of `turn.result`.
Reports(turn, machs) ==
  LET draining == Member(turn.body, "draining_machines")
      down == Member(turn.body, "down_machines")
  IN /\ turn.code = "OK"
     /\ \A id \in Machines :
          /\ Cardinality({i \in DOMAIN draining : draining[i].id = id})
               = IF id \in DOMAIN machs /\ machs[id].mode = "DRAINING" THEN 1 ELSE 0
          /\ Cardinality({i \in DOMAIN down : down[i] = id})
               = IF id \in DOMAIN machs /\ machs[id].mode = "DOWN" THEN 1 ELSE 0
     /\ \A i \in DOMAIN draining : \A st \in InverseOfferStatuses :
          CopiesIn(st, draining[i].statuses)
            = Cardinality({sf \in Slaves \X Frameworks :
                 /\ sf[1] \in machs[draining[i].id].slaves
                 /\ sf[1] \in DOMAIN turn.result
                 /\ sf[2] \in DOMAIN turn.result[sf[1]]
                 /\ turn.result[sf[1]][sf[2]] = st})

\* C11: the answer of the status query lists every DRAINING machine exactly
\* once in the draining list, each with exactly the statuses the allocator
\* returned for the agents now on that machine (each as often as it was
\* returned), every DOWN machine exactly once in the down list, and no other
\* machine in either list; neither turn of the query changes a machine, the
\* stored schedule or the registered agents.
C11_StatusReportsModes ==
  [][/\ last'.op = "GetInverseOfferStatuses.then" => Reports(last', machines)
     /\ (last'.op = "maintenanceStatus" \/ last'.op = "GetInverseOfferStatuses.then")
          => UNCHANGED <<machines, schedules, registered, aborted>>]_vars

\* An answer with a draining machine whose two agents both have a status of
\* the same framework, a down machine, and a status for an agent elsewhere.
C11_Witness ==
  /\ StatusAnswered
  /\ \E i \in DOMAIN Member(last.body, "draining_machines") :
        BagCardinality(Member(last.body, "draining_machines")[i].statuses) >= 2
  /\ Len(Member(last.body, "down_machines")) = 1

\* The turn of an endpoint that reached the rescission loop.
Rescinding(turn) ==
  turn.op \in {"reserve", "unreserve", "createVolumes", "destroyVolumes"} /\ turn.code = "Pending"

\* The offers that were removed, in the order of their removal.
RemovedInOrder(calls) ==
  MapSeq(LAMBDA c : c.offer, SelectSeq(calls, LAMBDA c : c.call = "removeOffer"))

\* The offers the allocator was told to recover.
Recovered(calls) ==
  {calls[i].offer : i \in {j \in DOMAIN calls : calls[j].call = "recoverResources"}}

RECURSIVE Total(_)
Total(offerSet) ==
  IF offerSet = {} THEN NoResources
  ELSE LET offer == CHOOSE x \in offerSet : TRUE
       IN Plus(offer.resources, Total(offerSet \ {offer}))

\* The rescinded offers were rescinded one after the other until their
\* resources made the operation applicable, and the others were left alone.
StopsWhenSufficient(turn, before, after) ==
  LET removed == RemovedInOrder(turn.calls)
  IN /\ \A n \in 0..(Len(removed) - 1) :
          ~Applies(Total({removed[i] : i \in 1..n}), turn.req.operation)
     /\ Range(removed) \subseteq {offer \in before : offer.slave_id = turn.req.slaveId}
     /\ after = before \ Range(removed)
     /\ Recovered(turn.calls) = Range(removed)

\* C12 as amended: admission rescinds the agent's offers one at a time and
\* stops at the first one whose resources, added to those already rescinded,
\* make the operation applicable; every other offer stays outstanding and is
\* not reported to the allocator.  (The rescinded set is the shortest prefix
\* of the contributing offers in iteration order, not a smallest set.)
C12_StopsWhenSufficient ==
  [][Rescinding(last') => StopsWhenSufficient(last', offers, offers')]_vars

\* C12 as stated: besides stopping at sufficiency, no more offers are
\* rescinded than necessary, so that no rescinded offer could have been
\* spared with the operation still applicable to the others.
C12_NoMoreThanNecessary ==
  [][Rescinding(last') =>
       /\ StopsWhenSufficient(last', offers, offers')
       /\ \A offer \in Removed(last'.calls) :
            ~Applies(Total(Removed(last'.calls) \ {offer}), last'.req.operation)]_vars

\* Three offers that each overlap the requirement, two of them rescinded and
\* sufficient, the third still outstanding.
C12_Witness ==
  /\ Rescinding(last)
  /\ Cardinality(Removed(last.calls)) = 2
  /\ Applies(Total(Removed(last.calls)), last.req.operation)
  /\ \E offer \in offers :
        /\ offer.slave_id = last.req.slaveId
        /\ last.req.required # Minus(last.req.required, offer.resources)

\* C13: whatever the order in which the agent's offers are iterated, the
\* rescinded resources either make the operation applicable in every order
\* or in none, and so does what the allocator then has available for the
\* agent (the admitted-or-rejected outcome); the rescinded offers may differ.
C13_OrderIrrelevant ==
  [][Rescinding(last') =>
       LET slaveId == last'.req.slaveId
           operation == last'.req.operation
       IN \A order \in Orders({offer \in offers : offer.slave_id = slaveId}) :
             \A loop \in {Rescind(order, last'.req.required, NoResources, operation, <<>>)} :
                /\ Applies(loop.recovered, operation)
                     <=> Applies(Total(Removed(last'.calls)), operation)
                /\ Applies(Plus(available[slaveId], loop.recovered), operation)
                     <=> Applies(available'[slaveId], operation)]_vars

\* A reservation of cpus and disk over three offers, where another order
\* would have rescinded other offers.
C13_Witness ==
  /\ Rescinding(last)
  /\ Cardinality({k \in Kinds : last.req.required[k] > 0}) = 2
  /\ LET before == offers \cup Removed(last.calls)
     IN /\ Cardinality(before) = 3
        /\ \E order \in Orders(before) :
              Removed(Rescind(order, last.req.required, NoResources,
                              last.req.operation, <<>>).calls) # Removed(last.calls)

\* A turn of an endpoint that went through the rescission loop, whatever it
\* answered.
PastValidation(turn) ==
  /\ turn.op \in {"reserve", "unreserve", "createVolumes", "destroyVolumes"}
  /\ turn.code \notin {"BadRequest", "Unauthorized"}

\* C14: a request that reaches the rescission loop hands the operation to
\* master->apply exactly once, after every rescission, whether or not the
\* rescinded offers cover it; the answer is OK exactly when the allocator
\* could apply the operation and Conflict otherwise, and the continuation
\* brings back no offer: offers appear only when the allocator makes new ones.
C14_AppliedOnceThenAnswered ==
  [][/\ PastValidation(last') =>
          LET calls == last'.calls
              submitted == Apply(last'.req.slaveId, last'.req.operation)
          IN /\ last'.code = "Pending"
             /\ Cardinality({i \in DOMAIN calls : calls[i].call = "apply"}) = 1
             /\ calls[Len(calls)].call = "apply"
             /\ calls[Len(calls)].offer = submitted
             /\ CopiesIn(submitted, pending') = CopiesIn(submitted, pending) + 1
     /\ last'.op = "Apply.then" =>
          /\ last'.code \in {"OK", "Conflict"}
          /\ last'.code = "OK"
               <=> Contains(available[last'.req.slaveId], Consumed(last'.req.operation))
          /\ last'.code = "Conflict" => available' = available
          /\ offers' = offers
          /\ CopiesIn(last'.req, pending') = CopiesIn(last'.req, pending) - 1
     /\ offers' \ offers # {} => last'.op = "allocate"]_vars

\* A Conflict after every offer made so far was rescinded.
C14_Witness ==
  /\ last.op = "Apply.then"
  /\ last.code = "Conflict"
  /\ nextOfferId > 1
  /\ offers = {}

AdmissionEndpoints == {"reserve", "unreserve", "createVolumes", "destroyVolumes"}

\* The turn is an endpoint's and answers one of its rejections.
RejectedBeforeAdmission(turn) ==
  /\ turn.op \in AdmissionEndpoints
  /\ turn.code \in {"BadRequest", "Unauthorized"}

\* C15: a reserve, unreserve, create-volumes or destroy-volumes request that
\* is rejected (method, credentials, parameters, validation of the operation)
\* rescinds no offer, calls neither the allocator nor Master::apply, and
\* leaves the offers, the agents and their resources as they were.
C15_RejectionHasNoEffect ==
  [][RejectedBeforeAdmission(last') =>
       /\ last'.calls = <<>>
       /\ offers' = offers
       /\ pending' = pending
       /\ available' = available
       /\ UNCHANGED <<machines, schedules, registered, nextOfferId>>]_vars

\* A reservation of unreserved resources failed its validation while an
\* offer of its agent was outstanding.
C15_Witness ==
  /\ last.op = "reserve"
  /\ last.body = "Invalid RESERVE operation"
  /\ \E slaveId \in last.req.slaveIds : OffersOf(slaveId) # {}

\* The turn is an endpoint's about an agent that is not registered.
NamesUnknownAgent(turn) ==
  /\ turn.op \in AdmissionEndpoints
  /\ "slaveIds" \in DOMAIN turn.req
  /\ \E slaveId \in turn.req.slaveIds : slaveId \notin registered

\* C16 as stated: a request naming an agent that is not registered is answered
\* NotFound, no offer is rescinded and nothing is submitted.
C16_UnknownAgentNotFound ==
  [][NamesUnknownAgent(last') =>
       /\ last'.code = "NotFound"
       /\ last'.calls = <<>>
       /\ offers' = offers
       /\ pending' = pending]_vars

\* C16: a request naming an agent that is not registered is answered
\* BadRequest with "No slave found with specified ID", before its resources
\* are looked at; no offer of any agent is rescinded and nothing is submitted.
C16_UnknownAgentRejected ==
  [][NamesUnknownAgent(last') =>
       /\ last'.code = "BadRequest"
       /\ last'.body = "No slave found with specified ID"
       /\ last'.calls = <<>>
       /\ offers' = offers
       /\ pending' = pending
       /\ available' = available]_vars

\* A request about the unregistered agent 2 was answered while an offer of
\* agent 1 was outstanding.
C16_Witness ==
  /\ last.op \in AdmissionEndpoints
  /\ "slaveIds" \in DOMAIN last.req
  /\ last.req.slaveIds = {2}
  /\ 2 \notin registered
  /\ OffersOf(1) # {}

\* The turn answered a call other than SUBSCRIBE that passed the checks on
\* the form of the request.
Called(turn) ==
  /\ turn.op = "scheduler"
  /\ turn.req.type \notin {"", "SUBSCRIBE"}

\* The frameworks, the pipes, the offers and the rest of the master's state
\* stay as they are.
StoreUnchanged ==
  /\ UNCHANGED <<frameworks, pipes, offers, available>>
  /\ UNCHANGED <<machines, schedules, registered, pending, aborted, nextOfferId, master>>

\* C17: a call other than SUBSCRIBE about a framework id that is not
\* registered (never seen, or removed) is answered BadRequest, calls no
\* function of the master and changes nothing.
C17_UnknownFrameworkRefused ==
  [][(Called(last') /\ frameworks[last'.req.framework_id].state \in {"unknown", "completed"})
       => /\ last'.code = "BadRequest"
          /\ last'.body = "Framework cannot be found"
          /\ last'.calls = <<>>
          /\ StoreUnchanged]_vars

\* A second TEARDOWN of a removed framework was refused while the other
\* framework held an offer.
C17_Witness ==
  /\ last.op = "scheduler"
  /\ last.req.type = "TEARDOWN"
  /\ last.code = "BadRequest"
  /\ frameworks[last.req.framework_id].state = "completed"
  /\ \E offer \in offers : connected(frameworks[offer.framework_id])

\* C18: a call other than SUBSCRIBE about a framework that is registered but
\* not connected is answered Forbidden, calls no function of the master and
\* changes nothing.
C18_DisconnectedFrameworkForbidden ==
  [][(Called(last') /\ frameworks[last'.req.framework_id].state = "disconnected")
       => /\ last'.code = "Forbidden"
          /\ last'.calls = <<>>
          /\ StoreUnchanged]_vars

\* The framework that lost its connection tried to accept the offer it holds.
C18_Witness ==
  /\ last.op = "scheduler"
  /\ last.req.type = "ACCEPT"
  /\ last.code = "Forbidden"
  /\ \E offer \in offers :
        offer.framework_id = last.req.framework_id /\ offer.id \in last.req.offer_ids

\* The function of the master that belongs to each call.
Corresponding(type) ==
  CASE type = "TEARDOWN" -> "removeFramework"
    [] type = "ACCEPT" -> "accept"
    [] type = "DECLINE" -> "decline"
    [] type = "REVIVE" -> "revive"
    [] type = "SUPPRESS" -> "suppress"
    [] type = "KILL" -> "kill"
    [] type = "SHUTDOWN" -> "shutdown"
    [] type = "ACKNOWLEDGE" -> "acknowledge"
    [] type = "RECONCILE" -> "reconcile"
    [] type = "MESSAGE" -> "message"
    [] type = "REQUEST" -> "request"

\* C19: a call of one of the eleven types about a connected framework calls
\* exactly one function of the master, the one of its type, for that
\* framework, and is answered Accepted in the same turn with nothing left
\* waiting; the other frameworks stay as they are, and TEARDOWN removes the
\* framework.  A call of another type ends the master.
C19_OneActionPerCall ==
  [][(Called(last') /\ frameworks[last'.req.framework_id].state = "connected")
       => IF last'.req.type \in Dispatched THEN
            /\ last'.code = "Accepted"
            /\ last'.calls = <<[call |-> Corresponding(last'.req.type),
                                framework |-> last'.req.framework_id,
                                argument |-> last'.req.offer_ids]>>
            /\ pending' = pending
            /\ ~aborted'
            /\ \A other \in Frameworks \ {last'.req.framework_id} :
                  frameworks'[other] = frameworks[other]
            /\ last'.req.type = "TEARDOWN"
                 <=> frameworks'[last'.req.framework_id].state = "completed"
          ELSE
            /\ aborted'
            /\ last'.calls = <<>>]_vars

\* A connected framework declined an offer, which is gone, while the other
\* framework is still connected.
C19_Witness ==
  /\ last.op = "scheduler"
  /\ last.req.type = "DECLINE"
  /\ last.code = "Accepted"
  /\ last.req.offer_ids # {}
  /\ \A offer \in offers : offer.id \notin last.req.offer_ids
  /\ nextOfferId > 1
  /\ \A frameworkId \in Frameworks : connected(frameworks[frameworkId])

\* The open pipes that were made for this framework.
ChannelsOf(frameworkId, ps) ==
  {p \in DOMAIN ps : ps[p].open /\ ps[p].framework_id = frameworkId}

\* Every framework has at most one open pipe, a connected one has exactly the
\* one it writes to, and what was read from a pipe followed by what waits in
\* it is what the master has sent on it, in that order.
Streaming(fs, ps) ==
  /\ \A frameworkId \in Frameworks :
        /\ Cardinality(ChannelsOf(frameworkId, ps)) <= 1
        /\ fs[frameworkId].state = "connected"
             => ChannelsOf(frameworkId, ps) = {fs[frameworkId].http}
  /\ \A p \in DOMAIN ps :
        /\ ps[p].delivered \o ps[p].queue = ps[p].submitted
        /\ ps[p].submitted # <<>> /\ ps[p].submitted[1] \in {"SUBSCRIBED", "ERROR"}

\* C20: a SUBSCRIBE that passes the checks makes exactly one pipe, whose
\* reader is the response and whose writer the master gets for the framework
\* of the call; a framework never has two open pipes; the events the master
\* sends for a framework go to its pipe and are read in the order in which
\* they were sent, and nothing is sent on a pipe once it is closed.
C20_OneChannelInOrder ==
  [][/\ Streaming(frameworks', pipes')
     /\ (last'.op = "scheduler" /\ last'.req.type = "SUBSCRIBE" /\ last'.code = "OK")
          => /\ Len(pipes') = Len(pipes) + 1
             /\ last'.body = "PIPE"
             /\ Len(last'.calls) = 1
             /\ last'.calls[1].call = "subscribe"
             /\ last'.calls[1].framework = last'.req.framework_id
             /\ last'.calls[1].argument.http = Len(pipes')
             /\ pipes'[Len(pipes')].framework_id = last'.req.framework_id
             /\ \A p \in DOMAIN pipes : pipes'[p].submitted = pipes[p].submitted
     /\ (last'.op = "scheduler" /\ last'.code # "OK") => Len(pipes') = Len(pipes)
     /\ last'.op = "emit"
          => \E frameworkId \in Frameworks :
                /\ connected(frameworks[frameworkId])
                /\ \A p \in DOMAIN pipes :
                      IF p = frameworks[frameworkId].http
                        THEN /\ Len(pipes'[p].submitted) = Len(pipes[p].submitted) + 1
                             /\ SubSeq(pipes'[p].submitted, 1, Len(pipes[p].submitted))
                                  = pipes[p].submitted
                        ELSE pipes'[p] = pipes[p]
     /\ \A p \in DOMAIN pipes :
           ~pipes[p].open => /\ ~pipes'[p].open
                             /\ pipes'[p].submitted = pipes[p].submitted]_vars

\* A framework that subscribed a second time has read SUBSCRIBED and two
\* different events from its new pipe, in the order in which they were sent.
C20_Witness ==
  \E frameworkId \in Frameworks :
     /\ connected(frameworks[frameworkId])
     /\ frameworks[frameworkId].http = 2
     /\ pipes[1].framework_id = frameworkId
     /\ pipes[2].delivered = <<"SUBSCRIBED", "RESCIND", "OFFERS">>

\* The checks on the master and on the method that this turn's request fails.
FailsEarly(turn) ==
  \/ ~master.elected
  \/ ~master.recovered
  \/ master.authenticate_frameworks
  \/ turn.request.method # "POST"

\* The checks on the body that this turn's request fails.
FailsLate(turn) ==
  \/ turn.request.contentType \notin {APPLICATION_JSON, APPLICATION_PROTOBUF}
  \/ ~turn.request.parses
  \/ ~turn.request.valid

\* The turn made no subscription and called no function of the master.
NothingDone(turn) ==
  /\ turn.calls = <<>>
  /\ UNCHANGED <<frameworks, pipes, offers, available, aborted, pending>>

\* C21: a SUBSCRIBE that passes the checks is answered OK with a pipe
\* whatever the master knows of its framework, with JSON when the request
\* accepts JSON, else with PROTOBUF when it accepts that; when it accepts
\* neither it is answered NotAcceptable, no pipe is made and the master is
\* not called.  No other call is answered with a pipe.
C21_SubscribeNegotiates ==
  [][last'.op = "scheduler" =>
       /\ last'.body = "PIPE" => last'.req.type = "SUBSCRIBE"
       /\ (~FailsEarly(last') /\ ~FailsLate(last') /\ last'.req.type = "SUBSCRIBE") =>
            LET accept == last'.request.accept
                encoding == IF APPLICATION_JSON \in accept THEN "JSON" ELSE "PROTOBUF"
            IN IF accept = {} THEN
                 /\ last'.code = "NotAcceptable"
                 /\ NothingDone(last')
               ELSE
                 /\ last'.code = "OK"
                 /\ last'.body = "PIPE"
                 /\ last'.calls = <<[call |-> "subscribe",
                                     framework |-> last'.req.framework_id,
                                     argument |-> [http |-> Len(pipes) + 1,
                                                   contentType |-> encoding]]>>
                 /\ Len(pipes') = Len(pipes) + 1
                 /\ pipes'[Len(pipes')].contentType = encoding]_vars

\* A framework the master had never seen subscribed with a request that
\* accepts only protobuf.
C21_Witness ==
  /\ last.op = "scheduler"
  /\ last.req.type = "SUBSCRIBE"
  /\ last.request.accept = {APPLICATION_PROTOBUF}
  /\ last.code = "OK"
  /\ Len(pipes) = 1
  /\ pipes[1].contentType = "PROTOBUF"
  /\ connected(frameworks[last.req.framework_id])

\* C22: the first check that fails gives the response, in this order: not
\* elected 503, not recovered 503, authentication of frameworks required 401
\* (SUBSCRIBE too), method not POST 405, then the checks on the body; and a
\* request that fails a check makes no subscription and calls no function of
\* the master.
C22_FirstFailingCheckAnswers ==
  [][last'.op = "scheduler" =>
       /\ IF ~master.elected
            THEN last'.code = "ServiceUnavailable" /\ last'.body = "Not the leading master"
          ELSE IF ~master.recovered
            THEN /\ last'.code = "ServiceUnavailable"
                 /\ last'.body = "Master has not finished recovery"
          ELSE IF master.authenticate_frameworks THEN last'.code = "Unauthorized"
          ELSE IF last'.request.method # "POST" THEN last'.code = "MethodNotAllowed"
          ELSE IF FailsLate(last')
            THEN last'.code \in {"BadRequest", "UnsupportedMediaType"}
          ELSE last'.code \notin {"ServiceUnavailable", "Unauthorized", "MethodNotAllowed",
                                  "UnsupportedMediaType"}
       /\ (FailsEarly(last') \/ FailsLate(last')) =>
            /\ last'.req.type = ""
            /\ NothingDone(last')]_vars

\* A GET without Content-Type was sent to a master that is not elected, and
\* was answered 503.
C22_Witness ==
  /\ last.op = "scheduler"
  /\ ~master.elected
  /\ last.request.method = "GET"
  /\ last.request.contentType = ""
  /\ last.code = "ServiceUnavailable"

\* C23 as stated: a POST that gets to the checks on the body and has no
\* Content-Type, an unsupported one, a body that does not parse or a call
\* that is not valid is answered BadRequest.
C23_BadBodyIsBadRequest ==
  [][(last'.op = "scheduler" /\ ~FailsEarly(last') /\ FailsLate(last'))
       => last'.code = "BadRequest"]_vars

\* C23: such a POST is answered BadRequest when it has no Content-Type,
\* UnsupportedMediaType when its Content-Type is neither JSON nor protobuf
\* (whatever its body), and BadRequest when its body does not parse or its
\* call is not valid.
C23_BadBodyRefused ==
  [][(last'.op = "scheduler" /\ ~FailsEarly(last') /\ FailsLate(last'))
       => /\ last'.code =
               IF last'.request.contentType = "" THEN "BadRequest"
               ELSE IF last'.request.contentType
                         \notin {APPLICATION_JSON, APPLICATION_PROTOBUF}
                 THEN "UnsupportedMediaType"
               ELSE "BadRequest"
          /\ NothingDone(last')]_vars

\* A POST with Content-Type text/plain and a body that does not parse was
\* answered 415.
C23_Witness ==
  /\ last.op = "scheduler"
  /\ last.request.method = "POST"
  /\ last.request.contentType = "text/plain"
  /\ ~last.request.parses
  /\ last.code = "UnsupportedMediaType"

\* The framework is registered, connected or not.
Exists(frameworkId) == frameworks[frameworkId].state \in {"connected", "disconnected"}

\* The teardown request got as far as looking its framework up.
LooksUp(req) ==
  /\ req.request.method = "POST"
  /\ req.credentials => req.request.authorization = "valid"
  /\ req.request.decoded
  /\ req.request.frameworkId # 0

\* The turn removed this framework, which existed, with its connection and
\* its offers.
Removes(turn, frameworkId) ==
  /\ Exists(frameworkId)
  /\ turn.calls = <<[call |-> "removeFramework", framework |-> frameworkId, argument |-> {}]>>
  /\ frameworks'[frameworkId].state = "completed"
  /\ \A offer \in offers' : offer.framework_id # frameworkId

\* C24: the teardown request answers OK only for a framework that exists,
\* at once when the master has no authorizer and after a positive
\* authorization when it has one, and then the framework is removed; an
\* unknown framework is answered BadRequest, credentials that do not
\* authenticate and a negative authorization are answered Unauthorized, and
\* every such answer leaves the frameworks, their connections and their
\* offers as they were.
C24_TeardownRemovesOrRejects ==
  [][/\ last'.op = "teardown" =>
          LET req == last'.req
              id == req.request.frameworkId
          IN /\ (req.request.method = "POST" /\ req.credentials
                   /\ req.request.authorization # "valid") => last'.code = "Unauthorized"
             /\ (LooksUp(req) /\ ~Exists(id)) => last'.code = "BadRequest"
             /\ (LooksUp(req) /\ Exists(id) /\ ~req.authorizer) => last'.code = "OK"
             /\ (LooksUp(req) /\ Exists(id) /\ req.authorizer) =>
                  /\ last'.code = "Pending"
                  /\ UNCHANGED <<frameworks, pipes, offers, available>>
             /\ last'.code = "OK" =>
                  LooksUp(req) /\ ~req.authorizer /\ Removes(last', id)
     /\ last'.op = "Authorize.then" =>
          /\ ~last'.req.authorized => last'.code = "Unauthorized"
          /\ last'.code = "OK" <=> (last'.req.authorized /\ Exists(last'.req.framework_id))
          /\ last'.code = "OK" => Removes(last', last'.req.framework_id)
     /\ (last'.op \in {"teardown", "Authorize.then"}
           /\ last'.code \in {"BadRequest", "Unauthorized"}) =>
          /\ last'.calls = <<>>
          /\ UNCHANGED <<frameworks, pipes, offers, available>>]_vars

\* The authorizer said no to the teardown of a connected framework that holds
\* an offer, and still holds it.
C24_Witness ==
  /\ last.op = "Authorize.then"
  /\ last.code = "Unauthorized"
  /\ connected(frameworks[last.req.framework_id])
  /\ \E offer \in offers : offer.framework_id = last.req.framework_id

\* The framework that the turn is a teardown of: of the operator's request
\* once it looks the framework up, of its continuation, of a TEARDOWN call.
TornDown(turn) ==
  IF turn.op = "teardown" /\ LooksUp(turn.req) THEN {turn.req.request.frameworkId}
  ELSE IF turn.op = "Authorize.then" THEN {turn.req.framework_id}
  ELSE IF turn.op = "scheduler" /\ turn.req.type = "TEARDOWN" THEN {turn.req.framework_id}
  ELSE {}

\* C25: a framework that was removed stays removed; a turn calls
\* removeFramework only for a framework that exists at that moment; every
\* teardown of a framework that is not there any more, by a request, by a
\* continuation that waited for the authorizer, or by a TEARDOWN call, is
\* answered BadRequest (Unauthorized if the authorizer said no), changes
\* nothing, and the master does not abort.
C25_TeardownOnce ==
  [][/\ \A frameworkId \in Frameworks :
           frameworks[frameworkId].state = "completed"
             => frameworks'[frameworkId].state = "completed"
     /\ "calls" \in DOMAIN last' =>
          \A i \in DOMAIN last'.calls :
             last'.calls[i].call = "removeFramework"
               => /\ Exists(last'.calls[i].framework)
                  /\ frameworks'[last'.calls[i].framework].state = "completed"
     /\ \A frameworkId \in TornDown(last') :
           /\ ~aborted'
           /\ ~Exists(frameworkId) =>
                /\ last'.code \in {"BadRequest", "Unauthorized"}
                /\ last'.code = "Unauthorized" =>
                     (last'.op = "Authorize.then" /\ ~last'.req.authorized)
                /\ last'.calls = <<>>
                /\ UNCHANGED <<frameworks, pipes, offers, available>>]_vars

\* A teardown that waited for the authorizer found its framework removed and
\* was answered BadRequest, while another teardown of the same framework is
\* still waiting.
C25_Witness ==
  /\ last.op = "Authorize.then"
  /\ last.code = "BadRequest"
  /\ last.req.authorized
  /\ frameworks[last.req.framework_id].state = "completed"
  /\ BagIn(Authorize(last.req.framework_id), pending)

\* The offer would take something off what is required.
Contributes(required, offer) == required # Minus(required, offer.resources)

\* What is still required when the k-th offer of `order` is examined, given
\* the offers that were rescinded.
StillRequired(required, order, k, removed) ==
  Minus(required, Total({order[i] : i \in 1..(k - 1)} \cap removed))

\* C26: in whatever order the agent's offers are examined, an offer is
\* rescinded only if it takes something off what is still required when it
\* is examined, and an offer that takes nothing off it then stays
\* outstanding and is not reported to the allocator; the offers the request
\* rescinded are those of one such order.
C26_OnlyContributingOffersRescinded ==
  [][Rescinding(last') =>
       LET mine == {offer \in offers : offer.slave_id = last'.req.slaveId}
           required == last'.req.required
       IN /\ \A order \in Orders(mine) :
               \A loop \in {Rescind(order, required, NoResources, last'.req.operation, <<>>)} :
                  \A k \in DOMAIN order :
                     \A still \in {StillRequired(required, order, k, Removed(loop.calls))} :
                        /\ order[k] \in Removed(loop.calls) => Contributes(still, order[k])
                        /\ ~Contributes(still, order[k]) =>
                             /\ order[k] \notin Removed(loop.calls)
                             /\ order[k] \notin Recovered(loop.calls)
          /\ \E order \in Orders(mine) :
                /\ SubSeq(last'.calls, 1, Len(last'.calls) - 1)
                     = Rescind(order, required, NoResources, last'.req.operation, <<>>).calls
                /\ offers' = offers \ Removed(last'.calls)]_vars

\* Two offers were rescinded and a third one, which overlaps what the request
\* required at first but not what was left after the first rescission, is
\* still outstanding.
C26_Witness ==
  /\ Rescinding(last)
  /\ Len(RemovedInOrder(last.calls)) = 2
  /\ \E offer \in offers :
        /\ offer.slave_id = last.req.slaveId
        /\ Contributes(last.req.required, offer)
        /\ ~Contributes(Minus(last.req.required, RemovedInOrder(last.calls)[1].resources),
                        offer)

\* The places of the calls of this kind about this offer.
CallsAbout(calls, call, offer) ==
  {i \in DOMAIN calls : calls[i].call = call /\ calls[i].offer = offer}

\* C27: for every offer a request rescinds, the allocator is told once to
\* recover the offer (its framework, agent and resources) with Filters(),
\* and the offer is removed once, after that; the allocator is told of no
\* other offer, gets back exactly the resources of the rescinded offers, and
\* all of this comes before the one call of Master::apply.
C27_RecoverThenRemoveThenApply ==
  [][Rescinding(last') =>
       LET calls == last'.calls
           rescinded == offers \ offers'
       IN /\ \A offer \in rescinded :
               /\ Cardinality(CallsAbout(calls, "recoverResources", offer)) = 1
               /\ Cardinality(CallsAbout(calls, "removeOffer", offer)) = 1
               /\ \A i \in CallsAbout(calls, "recoverResources", offer) :
                     /\ calls[i].filters = "Filters()"
                     /\ \A j \in CallsAbout(calls, "removeOffer", offer) : i < j
          /\ Cardinality({i \in DOMAIN calls : calls[i].call = "recoverResources"})
               = Cardinality(rescinded)
          /\ Cardinality({i \in DOMAIN calls : calls[i].call = "removeOffer"})
               = Cardinality(rescinded)
          /\ available'[last'.req.slaveId]
               = Plus(available[last'.req.slaveId], Total(rescinded))
          /\ \A i \in DOMAIN calls : calls[i].call = "apply" <=> i = Len(calls)]_vars

\* A request rescinded the offers of two different frameworks.
C27_Witness ==
  /\ Rescinding(last)
  /\ \E i, j \in DOMAIN last.calls :
        /\ last.calls[i].call = "recoverResources"
        /\ last.calls[j].call = "recoverResources"
        /\ last.calls[i].offer.framework_id # last.calls[j].offer.framework_id

\* The places of this step about this agent or machine.
StepsAbout(calls, call, id) == {i \in DOMAIN calls : calls[i] = [call |-> call, id |-> id]}

\* C28: the continuation of machine-down runs only once the registrar has
\* persisted StartMaintenance, the request turn having changed nothing; it
\* tells every agent of the named machines to shut down once and removes it
\* once, right after telling it, and does nothing of the kind to any other
\* agent; it marks every named machine DOWN once, after the last removal.
C28_PersistShutdownRemoveMarkDown ==
  [][/\ (last'.op = "machineDown" /\ last'.code = "Pending") =>
          /\ BagIn(last'.req, pending')
          /\ UNCHANGED <<machines, registered, schedules>>
     /\ (last'.op = "StartMaintenance.then" /\ last'.code = "OK") =>
          LET calls == last'.calls
              ids == last'.req.ids
              agents == UNION {machines[id].slaves : id \in ids \cap DOMAIN machines}
              removals == {i \in DOMAIN calls : calls[i].call = "removeSlave"}
          IN /\ BagIn(last'.req, pending)
             /\ last'.registrar = "true"
             /\ \A slaveId \in agents :
                   /\ Cardinality(StepsAbout(calls, "send ShutdownMessage", slaveId)) = 1
                   /\ Cardinality(StepsAbout(calls, "removeSlave", slaveId)) = 1
                   /\ \A i \in StepsAbout(calls, "send ShutdownMessage", slaveId) :
                         calls[i + 1] = [call |-> "removeSlave", id |-> slaveId]
                   /\ slaveId \in registered /\ slaveId \notin registered'
             /\ Len(calls) = 2 * Cardinality(agents) + Cardinality(ids)
             /\ registered' = registered \ agents
             /\ \A id \in ids :
                   /\ Cardinality(StepsAbout(calls, "set_mode DOWN", id)) = 1
                   /\ \A m \in StepsAbout(calls, "set_mode DOWN", id) :
                         \A r \in removals : r < m
                   /\ machines'[id].mode = "DOWN"
                   /\ machines'[id].slaves = {}]_vars

\* Two machines with an agent each were brought down by one request.
C28_Witness ==
  /\ last.op = "StartMaintenance.then"
  /\ last.code = "OK"
  /\ Cardinality(last.req.ids) = 2
  /\ Cardinality(last.sent) = 2
  /\ Len(last.calls) = 6
  /\ last.calls[3].call = "send ShutdownMessage"

\* C29: the master never stores more than one schedule: an update that was
\* persisted leaves exactly the schedule it posted, and machine-down and
\* machine-up add none.
C29_AtMostOneSchedule ==
  [][/\ Len(schedules') <= 1
     /\ (last'.op = "UpdateSchedule.then" /\ last'.code = "OK")
          => schedules' = <<last'.req.schedule>>
     /\ last'.op \in {"machineDown", "StartMaintenance.then", "machineUp",
                      "StopMaintenance.then"}
          => Len(schedules') <= Len(schedules)]_vars

\* A schedule was stored, and an update replaced it by another one.
C29_Witness ==
  /\ last.op = "UpdateSchedule.then"
  /\ last.code = "OK"
  /\ schedules = <<last.req.schedule>>
  /\ \E id \in DOMAIN machines :
        /\ machines[id].mode = "UP"
        /\ machines[id].slaves = {}
        /\ \A i \in DOMAIN last.req.schedule.windows :
              id \notin Range(last.req.schedule.windows[i].machine_ids)

\* The machines that the windows list.
Scheduled_ids(schedule) ==
  UNION {Range(schedule.windows[i].machine_ids) : i \in DOMAIN schedule.windows}

\* C30: no turn makes the master forget a machine; a machine that an update
\* drops from the schedule, and a machine that is brought up, is kept, UP
\* and without unavailability, with the agents it had.
C30_MachinesNeverDeleted ==
  [][/\ DOMAIN machines \subseteq DOMAIN machines'
     /\ (last'.op = "UpdateSchedule.then" /\ last'.code = "OK") =>
          \A id \in DOMAIN machines \ Scheduled_ids(last'.req.schedule) :
             machines'[id] = [mode |-> "UP", unavailability |-> {},
                              slaves |-> machines[id].slaves]
     /\ (last'.op = "StopMaintenance.then" /\ last'.code = "OK") =>
          \A id \in last'.req.ids :
             /\ id \in DOMAIN machines'
             /\ machines'[id].mode = "UP"
             /\ machines'[id].unavailability = {}]_vars

\* A machine that was brought down and up again, and has no agent left, is
\* still known, UP and in no schedule.
C30_Witness ==
  /\ last.op = "StopMaintenance.then"
  /\ last.code = "OK"
  /\ schedules = <<>>
  /\ \E id \in last.req.ids :
        /\ id \in DOMAIN machines
        /\ machines[id] = [mode |-> "UP", unavailability |-> {}, slaves |-> {}]
  /\ registered # {}

\* Every offer is held by a registered framework and drawn from a registered
\* agent, and no two offers have the same id.
Held(offerSet, fs, agents) ==
  /\ \A offer \in offerSet :
        /\ fs[offer.framework_id].state \in {"connected", "disconnected"}
        /\ offer.slave_id \in agents
  /\ \A a, b \in offerSet : a.id = b.id => a = b

Store == <<machines, schedules, registered, offers>>

\* C32: every step that changes the store is one whole turn.  The turn of a
\* maintenance request changes nothing and leaves its operation with the
\* registrar; the continuation of a persisted operation, which waited there,
\* updates every machine of its request (and, for machine-down, removes
\* every agent of these machines); the turn of an admission runs its loop to
\* the end, until the rescinded offers cover the operation or no offer of
\* the agent contributes any more, and submits the operation; the
\* continuation of the operation touches no offer.  So between two turns no
\* request is half done.
C32_TurnsAreAtomic ==
  [][/\ last'.op \in {"maintenanceSchedule", "machineDown", "machineUp"} =>
          /\ UNCHANGED Store
          /\ last'.code = "Pending" => pending' = pending (+) SetToBag({last'.req})
          /\ last'.code # "Pending" => UNCHANGED pending
     /\ (last'.op \in {"UpdateSchedule.then", "StartMaintenance.then", "StopMaintenance.then"}
           /\ last'.code = "OK") =>
          /\ BagIn(last'.req, pending)
          /\ pending' = pending (-) SetToBag({last'.req})
     /\ (last'.op = "UpdateSchedule.then" /\ last'.code = "OK") =>
          LET new == last'.req.schedule
          IN /\ \A i \in DOMAIN new.windows : \A id \in Range(new.windows[i].machine_ids) :
                   /\ id \in DOMAIN machines'
                   /\ machines'[id].mode = "DRAINING"
                   /\ machines'[id].unavailability = {new.windows[i].unavailability}
             /\ \A id \in DOMAIN machines' :
                   (\A i \in DOMAIN new.windows : id \notin Range(new.windows[i].machine_ids))
                     => machines'[id].mode = "UP" /\ machines'[id].unavailability = {}
             /\ schedules' = <<new>>
     /\ (last'.op = "StartMaintenance.then" /\ last'.code = "OK") =>
          \A id \in last'.req.ids :
             /\ machines'[id].mode = "DOWN"
             /\ machines'[id].slaves = {}
             /\ id \in DOMAIN machines => machines[id].slaves \cap registered' = {}
     /\ (last'.op = "StopMaintenance.then" /\ last'.code = "OK") =>
          /\ \A id \in last'.req.ids :
                machines'[id].mode = "UP" /\ machines'[id].unavailability = {}
          /\ \A i \in DOMAIN schedules' : \A j \in DOMAIN schedules'[i].windows :
                /\ Range(schedules'[i].windows[j].machine_ids) \cap last'.req.ids = {}
                /\ schedules'[i].windows[j].machine_ids # <<>>
     /\ Rescinding(last') =>
          LET rescinded == offers \ offers'
              left == Minus(last'.req.required, Total(rescinded))
          IN /\ UNCHANGED <<machines, schedules, registered>>
             /\ \/ Applies(Total(rescinded), last'.req.operation)
                \/ \A offer \in offers' :
                      offer.slave_id = last'.req.slaveId => Minus(left, offer.resources) = left
             /\ pending' = pending (+) SetToBag({[op |-> "Apply",
                                                  slaveId |-> last'.req.slaveId,
                                                  operation |-> last'.req.operation]})
     /\ last'.op = "Apply.then" =>
          /\ UNCHANGED Store
          /\ BagIn(last'.req, pending)
          /\ pending' = pending (-) SetToBag({last'.req})
     /\ Store' # Store =>
          \/ last'.op \in {"UpdateSchedule.then", "StartMaintenance.then",
                           "StopMaintenance.then", "registerSlave", "allocate"}
          \/ Rescinding(last')]_vars

\* Both machines were brought down in one turn while another request was
\* waiting for the registrar or the allocator.
C32_Witness ==
  /\ last.op = "StartMaintenance.then"
  /\ last.code = "OK"
  /\ last.req.ids = {1, 2}
  /\ machines[1].mode = "DOWN" /\ machines[2].mode = "DOWN"
  /\ last.sent # {}
  /\ InFlight > 0

\* The request that waited for this future has its response.
Responded(req) ==
  IF req.op = "Authorize"
    THEN /\ last.op = "Authorize.then"
         /\ last.req.framework_id = req.framework_id
         /\ last.code \in {"OK", "BadRequest", "Unauthorized"}
  ELSE IF req.op = "Apply"
    THEN last.op = "Apply.then" /\ last.req = req /\ last.code \in {"OK", "Conflict"}
  ELSE last.op \in {"UpdateSchedule.then", "StartMaintenance.then", "StopMaintenance.then"}
         /\ last.req = req /\ last.code = "OK"

InStoredSchedule ==
  UNION {UNION {Range(schedules[i].windows[j].machine_ids) :
                  j \in DOMAIN schedules[i].windows} : i \in DOMAIN schedules}

\* C34: a machine is listed in a window of the stored schedule exactly when
\* its mode is DRAINING or DOWN.
C34_ScheduledIffNotUp ==
  \A id \in Machines :
     id \in InStoredSchedule
       <=> (id \in DOMAIN machines /\ machines[id].mode \in {"DRAINING", "DOWN"})

\* The unavailabilities of the windows of the stored schedule that list the
\* machine.
StoredUnavailability(id) ==
  UNION {{schedules[i].windows[j].unavailability :
            j \in {k \in DOMAIN schedules[i].windows :
                     id \in Range(schedules[i].windows[k].machine_ids)}} :
         i \in DOMAIN schedules}

\* C35: an UP machine has no unavailability, and a DRAINING or DOWN machine
\* has the unavailability of the window of the stored schedule that lists
\* it.
C35_UnavailabilityFollowsSchedule ==
  \A id \in DOMAIN machines :
     IF machines[id].mode = "UP"
       THEN machines[id].unavailability = {}
       ELSE /\ machines[id].unavailability # {}
            /\ machines[id].unavailability = StoredUnavailability(id)

\* C36: an admission rescinds only offers of its agent that were outstanding,
\* each with one recoverResources and one removeOffer, and no more offers
\* than the agent had; the offers of the other agents, what the allocator
\* has of the other agents, the machines and the stored schedule stay as
\* they were.  No turn brings an offer back: an offer that is gone, and
\* whose id was used, is never outstanding again, so it is rescinded at most
\* once over all requests.
C36_AdmissionTouchesItsAgentOnce ==
  [][/\ Rescinding(last') =>
          LET calls == last'.calls
              slaveId == last'.req.slaveId
              mine == {offer \in offers : offer.slave_id = slaveId}
          IN /\ \A i \in DOMAIN calls : calls[i].call # "apply" =>
                   /\ calls[i].offer \in mine
                   /\ calls[i].offer \notin offers'
                   /\ \A j \in DOMAIN calls :
                         (calls[j].call = calls[i].call /\ calls[j].offer = calls[i].offer)
                           => i = j
             /\ Len(calls) <= 2 * Cardinality(mine) + 1
             /\ offers \ offers' \subseteq mine
             /\ offers' \subseteq offers
             /\ \A other \in Slaves \ {slaveId} : available'[other] = available[other]
             /\ UNCHANGED <<machines, schedules, registered, nextOfferId>>
     /\ \A offer \in offers' : offer \in offers \/ offer.id = nextOfferId]_vars

\* A reservation on agent 1 rescinded an offer of agent 1 while agent 2 had
\* an offer, which is still there, another reservation was on its way, and
\* a machine was scheduled.
C36_Witness ==
  /\ Rescinding(last)
  /\ last.req.slaveId = 1
  /\ Len(last.calls) >= 3
  /\ \E offer \in offers : offer.slave_id = 2
  /\ InFlight = 2
  /\ schedules # <<>>

\* C37: an accepted TEARDOWN call leaves its framework removed; as long as
\* the framework is removed, every call about it that is not SUBSCRIBE and
\* passes the checks on its form is answered BadRequest and calls nothing
\* in the master; and no turn but a SUBSCRIBE about it could end that.
C37_CallsAfterTeardownRejected ==
  [][/\ (last'.op = "scheduler" /\ last'.req.type = "TEARDOWN" /\ last'.code = "Accepted") =>
          /\ frameworks[last'.req.framework_id].state = "connected"
          /\ frameworks'[last'.req.framework_id].state = "completed"
     /\ (/\ last'.op = "scheduler"
         /\ last'.req.type \notin {"", "SUBSCRIBE"}
         /\ frameworks[last'.req.framework_id].state = "completed") =>
          /\ last'.code = "BadRequest"
          /\ last'.body = "Framework cannot be found"
          /\ last'.calls = <<>>
          /\ UNCHANGED <<frameworks, pipes, offers, available, aborted>>
     /\ \A frameworkId \in Frameworks :
          (frameworks[frameworkId].state = "completed"
             /\ frameworks'[frameworkId].state # "completed") =>
            /\ last'.op = "scheduler"
            /\ last'.req.type = "SUBSCRIBE"
            /\ last'.req.framework_id = frameworkId]_vars

\* A framework that was removed made a call about an offer and was answered
\* BadRequest, while the other framework was connected.
C37_Witness ==
  /\ last.op = "scheduler"
  /\ last.req.type = "ACCEPT"
  /\ last.code = "BadRequest"
  /\ frameworks[last.req.framework_id].state = "completed"
  /\ \E frameworkId \in Frameworks : frameworks[frameworkId].state = "connected"

\* C38: when the continuation of machine-down marks a machine DOWN the
\* machine is DRAINING, and when the continuation of a schedule update makes
\* a machine DRAINING the machine is not DOWN, as the request turn had
\* checked.
C38_PreconditionHoldsAtUpdate ==
  [][/\ (last'.op = "StartMaintenance.then" /\ last'.code = "OK") =>
          \A id \in last'.req.ids :
             id \in DOMAIN machines /\ machines[id].mode = "DRAINING"
     /\ (last'.op = "UpdateSchedule.then" /\ last'.code = "OK") =>
          \A i \in DOMAIN last'.req.schedule.windows :
             \A id \in Range(last'.req.schedule.windows[i].machine_ids) :
                id \in DOMAIN machines => machines[id].mode # "DOWN"]_vars
====
